---- MODULE Spec2Model ----
(***************************************************************************)
(* A model of backend/server.js of link-checker-pro: the crawler           *)
(* (crawlWebsite), the status verifier (checkLinkStatus,                   *)
(* checkLinkWithBrowser), the evidence capturer (takeErrorScreenshot) and  *)
(* the scan handler (app.post('/api/scan')).                               *)
(*                                                                         *)
(* URLs are sequences of tokens: "https://site.com/out/deal" is            *)
(* <<"https://", "site.com", "/out", "/deal">>.  String.includes is        *)
(* substring search over tokens, toLowerCase maps each token.             *)
(***************************************************************************)
EXTENDS Integers, Sequences, FiniteSets, TLC

\* ------------------------------------------------------------------ bounds

\* crawlWebsite's maxPages argument ranges over 0..MaxPagesArg in CrawlSpec.
MaxPagesArg == 3
\* The pages of a site serve at most this many references in all.
MaxRefs == 4
\* calculateImpactScore is called with appearance counts 0..MaxAppearances in ScoreSpec.
MaxAppearances == 6
\* healthScore is compared with the rounded percentage for up to this many references.
MaxHealthLinks == 40
\* The fallback mappings are called with the numeric statuses 100..MaxStatus in FallbackSpec.
MaxStatus == 599

\* ------------------------------------------------------------ the URL model

U_ROOT    == <<"https://", "site.com", "/">>
U_ABOUT   == <<"https://", "site.com", "/about">>
U_CONTACT == <<"https://", "site.com", "/contact">>
U_AFF_IN  == <<"https://", "site.com", "/Out", "/deal">>
U_AFF_EXT == <<"https://", "partner.net", "/go", "?", "ClickID", "=7">>
U_EXT     == <<"https://", "other.org", "/">>
U_DOCS    == <<"https://", "docs.io", "/guide">>
U_BLOG    == <<"https://", "blog.io", "/post">>
U_MAILTO  == <<"mailto:", "a", "@", "b", ".", "co">>
U_REL     == <<"/relative">>
U_PIXEL      == <<"https://", "cdn.io", "/Pixel", ".gif">>
U_BEACON_AFF == <<"https://", "ads.net", "/track", "/beacon">>
U_DATA       == <<"data:", "image/png;base64,AAAA">>
U_BLOB       == <<"blob:", "https://", "site.com", "/1f2e">>
U_MAIL_BAD   == <<"mailto:", "not-an-email">>
U_MAIL_NOTLD == <<"mailto:", "a", "@", "b">>
U_MAIL_QUERY == <<"mailto:", "a", "@", "b", ".", "co", "?subject=Hi">>
U_MAIL_TRACK == <<"mailto:", "stats", "@", "google-analytics.com", "?subject=Hi">>

\* String.prototype.toLowerCase on one token.
LowerTok(t) ==
  CASE t = "/Out"    -> "/out"
    [] t = "ClickID" -> "clickid"
    [] t = "AffID"   -> "affid"
    [] t = "/Pixel"  -> "/pixel"
    [] t = "CTA"     -> "cta"
    [] t = "Button"  -> "button"
    [] t = "Hero"    -> "hero"
    [] OTHER         -> t

toLowerCase(s) == [i \in 1..Len(s) |-> LowerTok(s[i])]

\* String.prototype.includes: pat occurs in s as a contiguous run.
includes(s, pat) ==
  \E i \in 0..(Len(s) - Len(pat)) :
    \A j \in 1..Len(pat) : s[i + j] = pat[j]

startsWith(s, pat) ==
  /\ Len(s) >= Len(pat)
  /\ \A j \in 1..Len(pat) : s[j] = pat[j]

affiliatePatterns ==
  { <<"/api", "/click">>, <<"/track">>, <<"/aff">>, <<"/redirect">>,
    <<"/redir">>, <<"/goto">>, <<"/out">>, <<"clickid">>, <<"affid">>,
    <<"tid=">> }

isAffiliateLink(url) ==
  \E pattern \in affiliatePatterns : includes(toLowerCase(url), pattern)

\* new URL(url) parses iff the string starts with a scheme.
SchemeTokens == {"https://", "http://"}
OpaqueSchemeTokens == {"mailto:", "tel:", "javascript:", "data:", "blob:"}

isValidUrlAcceptsAll(url) == TRUE
isValidUrl(url) ==
  /\ Len(url) >= 1
  /\ url[1] \in SchemeTokens \cup OpaqueSchemeTokens

\* new URL(url).hostname; "" for the schemes that have no authority.
\* Only called on an url that parses.
hostname(url) ==
  IF url[1] \in SchemeTokens /\ Len(url) >= 2 THEN LowerTok(url[2]) ELSE ""

\* ------------------------------------------------------------ references

Link(u, t, c, ty) == [url |-> u, text |-> t, context |-> c, type |-> ty]

\* What page.evaluate can extract from a crawled page, in CrawlSpec.
\* Context strings, as token sequences: "div.hero - CTA button" and the like.
CX_NAV    == <<"nav", ".main">>
CX_FOOTER == <<"footer">>
CX_HERO   == <<"div", ".", "hero">>
CX_CTA    == <<"div", " - ", "CTA", " ", "button">>
CX_ALL    == <<"header", " ", "navigation", " ", "Hero", " ", "CTA">>
CX_NONE   == << >>
CX_HERO_CTA == <<"Hero", " ", "CTA", " ", "button">>
CX_BUTTON == <<"a", ".", "Button">>

CrawlLinkPool ==
  { Link(U_ABOUT,   "About",   CX_NAV,    "link"),
    Link(U_CONTACT, "Image",   CX_HERO,   "image"),
    Link(U_CONTACT, "Contact", CX_FOOTER, "link"),
    Link(U_AFF_IN,  "Deal",    CX_CTA,    "link"),
    Link(U_EXT,     "Partner", CX_FOOTER, "link") }

RECURSIVE SeqsUpTo(_, _)
SeqsUpTo(S, n) ==
  IF n = 0 THEN { << >> }
  ELSE LET shorter == SeqsUpTo(S, n - 1)
       IN  shorter \cup { Append(s, x) : s \in { t \in shorter : Len(t) = n - 1 }, x \in S }

Range(s) == { s[i] : i \in 1..Len(s) }

\* ------------------------------------------------------------- statuses

\* A status is a number (an HTTP code) or a string (a sentinel).
Num(n) == [isNum |-> TRUE,  num |-> n, str |-> ""]
Str(t) == [isNum |-> FALSE, num |-> 0, str |-> t]

\* status === n, status === 'X'; a string never equals a number
IsNum(status, n) == status.isNum /\ status.num = n
IsStr(status, t) == ~status.isNum /\ status.str = t
\* status >= n, status < n: a comparison with a non-numeric string is false (NaN)
GE(status, n) == status.isNum /\ status.num >= n
LT(status, n) == status.isNum /\ status.num < n

isSuccessStatus(status) ==
  \/ (status.isNum /\ status.num >= 200 /\ status.num < 300)
  \/ IsNum(status, 304)

determinePriorityFromStatus404Low(status) ==
  IF IsNum(status, 500) \/ IsStr(status, "ERROR") THEN "Critical"
  ELSE IF IsNum(status, 403) \/ IsNum(status, 401) \/ IsStr(status, "TIMEOUT") THEN "High"
  ELSE IF GE(status, 300) /\ LT(status, 400) THEN "Medium"
  ELSE "Low"
determinePriorityFromStatus(status) ==
  IF IsNum(status, 404) \/ IsNum(status, 500) \/ IsStr(status, "ERROR") THEN "Critical"
  ELSE IF IsNum(status, 403) \/ IsNum(status, 401) \/ IsStr(status, "TIMEOUT") THEN "High"
  ELSE IF GE(status, 300) /\ LT(status, 400) THEN "Medium"
  ELSE "Low"

getIssueType(status) ==
  IF IsNum(status, 404) THEN "Broken Link (404)"
  ELSE IF IsNum(status, 403) THEN "Access Forbidden (403)"
  ELSE IF IsNum(status, 401) THEN "Unauthorized (401)"
  ELSE IF IsNum(status, 500) \/ GE(status, 500) THEN "Server Error (500+)"
  ELSE IF IsStr(status, "TIMEOUT") THEN "Timeout Error"
  ELSE IF IsStr(status, "DNS_ERROR") THEN "DNS Error"
  ELSE IF IsStr(status, "CONNECTION_REFUSED") THEN "Connection Refused"
  ELSE IF IsStr(status, "ERROR") THEN "Connection Error"
  ELSE IF IsNum(status, 304) THEN "Not Modified (Cached)"
  ELSE IF GE(status, 300) /\ LT(status, 400) THEN "Redirect"
  ELSE "Unknown Issue"

Min(a, b) == IF a < b THEN a ELSE b
Max(a, b) == IF a > b THEN a ELSE b

\* context.toLowerCase().includes(word)
ContextHas(context, word) == includes(toLowerCase(context), <<word>>)

calculateImpactScoreUnclamped(status, context, appearanceCount) ==
  LET s1 == IF IsNum(status, 404) THEN 30
            ELSE IF GE(status, 500) THEN 35
            ELSE IF IsNum(status, 403) THEN 20
            ELSE IF GE(status, 300) /\ LT(status, 400) THEN 10
            ELSE 0
      s2 == IF ContextHas(context, "cta") \/ ContextHas(context, "button") THEN 20 ELSE 0
      s3 == IF ContextHas(context, "hero") \/ ContextHas(context, "header") THEN 15 ELSE 0
      s4 == IF ContextHas(context, "navigation") THEN 10 ELSE 0
  IN  50 + s1 + s2 + s3 + s4 + Min(appearanceCount * 5, 20)
calculateImpactScoreOnly500(status, context, appearanceCount) ==
  LET s1 == IF IsNum(status, 404) THEN 30
            ELSE IF IsNum(status, 500) THEN 35
            ELSE IF IsNum(status, 403) THEN 20
            ELSE IF GE(status, 300) /\ LT(status, 400) THEN 10
            ELSE 0
      s2 == IF ContextHas(context, "cta") \/ ContextHas(context, "button") THEN 20 ELSE 0
      s3 == IF ContextHas(context, "hero") \/ ContextHas(context, "header") THEN 15 ELSE 0
      s4 == IF ContextHas(context, "navigation") THEN 10 ELSE 0
      score == 50 + s1 + s2 + s3 + s4 + Min(appearanceCount * 5, 20)
  IN  Min(Max(score, 0), 100)
calculateImpactScore(status, context, appearanceCount) ==
  LET s1 == IF IsNum(status, 404) THEN 30
            ELSE IF GE(status, 500) THEN 35
            ELSE IF IsNum(status, 403) THEN 20
            ELSE IF GE(status, 300) /\ LT(status, 400) THEN 10
            ELSE 0
      s2 == IF ContextHas(context, "cta") \/ ContextHas(context, "button") THEN 20 ELSE 0
      s3 == IF ContextHas(context, "hero") \/ ContextHas(context, "header") THEN 15 ELSE 0
      s4 == IF ContextHas(context, "navigation") THEN 10 ELSE 0
      score == 50 + s1 + s2 + s3 + s4 + Min(appearanceCount * 5, 20)
  IN  Min(Max(score, 0), 100)

\* ---------------------------------------------------------------- state

VARIABLES
  pc,            \* control position of the single sequential flow
  env,           \* which environment the run is in: names the site and the network
  domain,        \* crawlWebsite's domain argument
  maxPages,      \* crawlWebsite's maxPages argument
  visited,       \* the visited Set, in insertion order
  toVisit,       \* the FIFO frontier
  allLinks,      \* accumulated references, each with its pageUrl
  currentUrl,    \* the URL dequeued by the running iteration
  crawlBrowser,  \* "none" | "open" | "closed"
  crawlTabs,     \* URLs whose crawler tab is open
  crawlOutcome,  \* "none" | "returned" | "threw"
  navigated,     \* history: URLs page.goto was called with, in order
  pushed,        \* history: [url, page] for every toVisit.push
  failedPages    \* history: pages whose iteration ended in the catch

crawlVars == <<env, domain, maxPages, visited, toVisit, allLinks, currentUrl,
               crawlBrowser, crawlTabs, crawlOutcome, navigated, pushed,
               failedPages>>

VARIABLES
  reqDomain,         \* req.body.domain
  affiliateBrowser,  \* "none" (null) | "open" | "closed"
  screenshotBrowser, \* "none" (null) | "open" | "closed"
  affTabs,           \* URLs whose verification tab is open
  shotTabs,          \* page URLs whose screenshot tab is open
  uniqueLinks,       \* one reference per unique target URL, first occurrence
  idx,               \* how many of uniqueLinks the for loop has taken
  statusInfo,        \* the outcome of the running iteration
  aiAnalysis,        \* the enrichment of the running iteration, or NullAI
  results,           \* the issues pushed so far
  response,          \* what res.json sent, or NoResponse
  analysisCache,     \* the process-wide Map of enrichment results
  failure,           \* history: what raised the exception caught by the handler
  checks,            \* history: [url, via] per network verification
  aiCalls,           \* history: URLs analyzeWithAI was called for
  captures,          \* history: target URLs takeErrorScreenshot was called for
  faults,            \* history: [url, via, kind, message] per transport failure of a verification
  captureFailures    \* history: [url, step] per step that rejected in the capture of
                     \* the running or just finished iteration

scanVars == <<reqDomain, affiliateBrowser, screenshotBrowser, affTabs,
              shotTabs, uniqueLinks, idx, statusInfo, aiAnalysis, results,
              response, analysisCache, failure, checks, aiCalls, captures,
              faults, captureFailures>>

VARIABLES
  fnArgs,            \* the arguments of a function called on its own
  fnResult           \* what it returned, or Str("none") before the call

fnVars == <<fnArgs, fnResult>>

vars == <<pc, crawlVars, scanVars, fnVars>>

\* ------------------------------------------------------- the environment

HttpReply(n, r) == [status |-> Num(n), redirectCount |-> r]

NullAI == [isNull |-> TRUE, analysis |-> "", suggestedFix |-> "", issueType |-> "", priority |-> ""]
AI(type, prio) ==
  [isNull |-> FALSE, analysis |-> "analysis", suggestedFix |-> "", issueType |-> type, priority |-> prio]

\* What the scanned site serves and what the network answers, in Spec.
ScanLinkPool ==
  { Link(U_AFF_EXT, "Deal",    CX_CTA,    "link"),
    Link(U_EXT,     "Partner", CX_FOOTER, "link") }

ScanNet ==
  [tabOutcomes    |-> {"opens", "fails"},
   browserReplies |-> {Num(200), Num(304), Num(403), Num(404)},
   browserErrors  |-> {"other"},
   httpReplies    |-> {HttpReply(200, 0), HttpReply(304, 0), HttpReply(404, 0), HttpReply(403, 0)},
   httpErrors     |-> {"ETIMEDOUT"},
   aiReplies      |-> {NullAI, AI("No Issue", "Low"), AI("Broken Link", "High")}]

NoNet == [tabOutcomes |-> {}, browserReplies |-> {}, browserErrors |-> {}, httpReplies |-> {}, httpErrors |-> {}, aiReplies |-> {}]

\* What the scanned site serves and what the network answers, in VerifySpec:
\* one page of references of every class checkLinkStatus tells apart, and a
\* network that fails in every way its catch blocks tell apart.
VerifyPages ==
  { <<Link(U_PIXEL, "Image", CX_FOOTER, "image"),
      Link(U_BEACON_AFF, "Offer", CX_CTA, "link"),
      Link(U_DATA, "Image", CX_HERO, "image"),
      Link(U_EXT, "Partner", CX_FOOTER, "link")>>,
    <<Link(U_MAILTO, "Mail us", CX_FOOTER, "link"),
      Link(U_MAIL_BAD, "Mail us", CX_FOOTER, "link"),
      Link(U_MAIL_NOTLD, "Mail us", CX_NAV, "link"),
      Link(U_AFF_EXT, "Deal", CX_CTA, "link")>>,
    <<Link(U_EXT, "Partner", CX_FOOTER, "link"),
      Link(U_AFF_EXT, "Deal", CX_CTA, "link"),
      Link(U_DATA, "Logo", CX_NAV, "image")>>,
    <<Link(U_BLOB, "Image", CX_HERO, "image"),
      Link(U_MAIL_QUERY, "Mail us", CX_FOOTER, "link"),
      Link(U_MAIL_TRACK, "Stats team", CX_FOOTER, "link"),
      Link(U_EXT, "Partner", CX_NAV, "link")>>,
    <<Link(U_ABOUT, "About", CX_NAV, "link"),
      Link(U_EXT, "Partner", CX_FOOTER, "link"),
      Link(U_EXT, "Sponsor", CX_HERO, "image")>>,
    <<Link(U_EXT, "Partner", CX_NAV, "link")>> }

VerifyNet ==
  [tabOutcomes    |-> {"opens", "fails"},
   browserReplies |-> {Num(200), Num(403), Num(404), Num(500)},
   browserErrors  |-> {"dns", "timeout", "refused", "other"},
   httpReplies    |-> {HttpReply(200, 0), HttpReply(403, 0), HttpReply(404, 0),
                       HttpReply(500, 0), HttpReply(503, 0)},
   httpErrors     |-> {"ENOTFOUND", "ETIMEDOUT", "ECONNABORTED", "ECONNREFUSED", "EPIPE"},
   aiReplies      |-> {NullAI, AI("No Issue", "Low"), AI("Broken Link", "High")}]

\* What the scanned site serves and what the network answers, in RankSpec:
\* pages of three references that can each become an Issue, and an enrichment
\* service whose reply text carries any word after "PRIORITY: ".
RankPages ==
  { <<Link(U_EXT, "Partner", CX_FOOTER, "link"),
      Link(U_DOCS, "Docs", CX_NAV, "link"),
      Link(U_BLOG, "Blog", CX_HERO, "link")>>,
    <<Link(U_EXT, "Partner", CX_FOOTER, "link"),
      Link(U_AFF_EXT, "Deal", CX_CTA, "link"),
      Link(U_DOCS, "Docs", CX_NAV, "link")>> }

RankNet ==
  [tabOutcomes    |-> {"opens", "fails"},
   browserReplies |-> {Num(200), Num(404)},
   browserErrors  |-> {"other"},
   httpReplies    |-> {HttpReply(200, 0), HttpReply(404, 0), HttpReply(403, 0), HttpReply(503, 0)},
   httpErrors     |-> {"ETIMEDOUT"},
   aiReplies      |-> {NullAI, AI("Broken Link", "Critical"), AI("Broken Link", "Urgent")}]

\* What the scanned site serves and what the network answers, in ReplaySpec:
\* the request names the page and, per target URL, the answer of the target
\* and the answer of the enrichment service, the same whenever they are asked.
ReplayPages ==
  { <<Link(U_EXT, "Partner", CX_FOOTER, "link"),
      Link(U_AFF_EXT, "Deal", CX_CTA, "link"),
      Link(U_DOCS, "Docs", CX_NAV, "link")>> }

ReplayAnswers ==
  { [fails |-> "no", status |-> Num(n), ai |-> reply] :
      n \in {200, 403, 404}, reply \in {NullAI, AI("Broken Link", "Critical")} }
    \cup { [fails |-> at, status |-> Str("none"), ai |-> reply] :
             at \in {"tab", "request"}, reply \in {NullAI, AI("Broken Link", "Critical")} }

\* the pages of CrossSpec: one reference, checked by HTTP or with the browser
CrossPages ==
  { <<Link(U_EXT, "Partner", CX_FOOTER, "link")>>,
    <<Link(U_AFF_EXT, "Deal", CX_CTA, "link")>> }

\* the second of three requests is answered by fnArgs.other
ReplayNet ==
  LET answer == IF fnArgs.run = 2 THEN fnArgs.other[uniqueLinks[idx + 1].url]
                ELSE fnArgs.answers[uniqueLinks[idx + 1].url]
  IN  [tabOutcomes    |-> IF answer.fails = "tab" THEN {"fails"} ELSE {"opens"},
       browserReplies |-> IF answer.fails = "no" THEN {answer.status} ELSE {},
       browserErrors  |-> IF answer.fails = "no" THEN {} ELSE {"other"},
       httpReplies    |-> IF answer.fails = "no"
                          THEN {[status |-> answer.status, redirectCount |-> 0]} ELSE {},
       httpErrors     |-> IF answer.fails = "no" THEN {} ELSE {"ETIMEDOUT"},
       aiReplies      |-> {answer.ai}]

CrawlPages == SeqsUpTo(CrawlLinkPool, MaxRefs)

\* What the crawled site serves in CrawlLiveSpec: three pages that can each
\* link to themselves and to each other, so that the site has cycles.
CycleLinkPool ==
  { Link(U_ROOT,    "Home",    CX_NAV,    "link"),
    Link(U_ABOUT,   "About",   CX_NAV,    "link"),
    Link(U_CONTACT, "Contact", CX_FOOTER, "link") }
CyclePages == SeqsUpTo(CycleLinkPool, 2)
ScanPages == SeqsUpTo(ScanLinkPool, MaxRefs)

\* What the scanned site serves and what the network answers, in StatusSpec:
\* plain and affiliate references inside and outside a call to action, and
\* targets that answer with success, redirect and error statuses of every
\* class the handler tells apart.
StatusPages ==
  { <<Link(U_EXT, "Partner", CX_FOOTER, "link"),
      Link(U_AFF_EXT, "Deal", CX_CTA, "link")>>,
    <<Link(U_DOCS, "Docs", CX_BUTTON, "link"),
      Link(U_EXT, "Partner", CX_NAV, "link")>>,
    <<Link(U_AFF_EXT, "Deal", CX_FOOTER, "link")>> }

StatusNet ==
  [tabOutcomes    |-> {"opens", "fails"},
   browserReplies |-> {Num(200), Num(301), Num(403), Num(404), Num(503)},
   browserErrors  |-> {"timeout", "other"},
   httpReplies    |-> {HttpReply(200, 0), HttpReply(200, 1), HttpReply(204, 0),
                       HttpReply(301, 0), HttpReply(304, 0), HttpReply(404, 0),
                       HttpReply(500, 0), HttpReply(502, 0), HttpReply(503, 0)},
   httpErrors     |-> {"ENOTFOUND", "ETIMEDOUT"},
   aiReplies      |-> {NullAI, AI("No Issue", "Low"), AI("Broken Link", "High")}]

\* the reference lists page.evaluate can return
Web == IF env = "crawl" THEN CrawlPages
       ELSE IF env = "cycle" THEN CyclePages
       ELSE IF env = "verify" THEN VerifyPages
       ELSE IF env = "rank" THEN RankPages
       ELSE IF env = "status" THEN StatusPages
       ELSE IF env = "replay" THEN {fnArgs.page} ELSE ScanPages
\* the answers of the network, the browser and the enrichment service
Net == IF env \in {"crawl", "cycle"} THEN NoNet
       ELSE IF env = "verify" THEN VerifyNet
       ELSE IF env = "rank" THEN RankNet
       ELSE IF env = "status" THEN StatusNet
       ELSE IF env = "replay" THEN ReplayNet ELSE ScanNet

\* the reference lists the page being crawled can still serve
PagesLeft == { links \in Web : Len(allLinks) + Len(links) <= MaxRefs }

\* ------------------------------------------------------------- crawlWebsite

\* visited.has(url)
VisitedHasNever(url) == FALSE
VisitedHas(url) == url \in Range(visited)

\* the while condition of the crawl loop
LoopConditionOffByOne == Len(toVisit) > 0 /\ Len(visited) <= maxPages
LoopCondition == Len(toVisit) > 0 /\ Len(visited) < maxPages

\* the filter callback: only same-domain, non-affiliate hyperlinks are crawled
IsInternalLinkFollowsAffiliate(link, baseDomain) ==
  /\ link.type = "link"
  /\ isValidUrl(link.url)
  /\ hostname(link.url) = baseDomain
IsInternalLink(link, baseDomain) ==
  /\ link.type = "link"
  /\ ~isAffiliateLink(link.url)
  /\ isValidUrl(link.url)                 \* new URL throws: the catch returns false
  /\ hostname(link.url) = baseDomain

RECURSIVE InternalLinks(_, _)
\* links.filter(...).map(link => link.url)
InternalLinks(links, baseDomain) ==
  IF links = << >> THEN << >>
  ELSE IF IsInternalLink(Head(links), baseDomain)
       THEN <<Head(links).url>> \o InternalLinks(Tail(links), baseDomain)
       ELSE InternalLinks(Tail(links), baseDomain)

RECURSIVE Enqueue(_, _)
\* internalLinks.forEach(link => { if (!visited.has(link) && !toVisit.includes(link)) toVisit.push(link) })
Enqueue(queue, urls) ==
  IF urls = << >> THEN queue
  ELSE IF ~VisitedHas(Head(urls)) /\ Head(urls) \notin Range(queue)
       THEN Enqueue(Append(queue, Head(urls)), Tail(urls))
       ELSE Enqueue(queue, Tail(urls))

\* allLinks.push(...links.map(link => ({...link, pageUrl: currentUrl})))
WithPageUrl(links, page) ==
  [i \in 1..Len(links) |->
     [url |-> links[i].url, text |-> links[i].text, context |-> links[i].context,
      type |-> links[i].type, pageUrl |-> page]]

\* puppeteer.launch succeeds
CrawlLaunch ==
  /\ pc = "crawl_start"
  /\ crawlBrowser' = "open"
  /\ pc' = "crawl_loop"
  /\ UNCHANGED <<scanVars, fnVars, env, domain, maxPages, visited, toVisit, allLinks, currentUrl,
                 crawlTabs, crawlOutcome, navigated, pushed, failedPages>>

\* puppeteer.launch rejects: nothing was acquired, the exception leaves crawlWebsite
CrawlLaunchFail ==
  /\ pc = "crawl_start"
  /\ crawlOutcome' = "threw"
  /\ pc' = "crawl_threw"
  /\ UNCHANGED <<scanVars, fnVars, env, domain, maxPages, visited, toVisit, allLinks, currentUrl,
                 crawlBrowser, crawlTabs, navigated, pushed, failedPages>>

\* one evaluation of the while condition, the shift and the visited check
CrawlLoop ==
  /\ pc = "crawl_loop"
  /\ IF LoopCondition
     THEN /\ currentUrl' = Head(toVisit)
          /\ toVisit' = Tail(toVisit)
          /\ IF VisitedHas(Head(toVisit))
             THEN /\ pc' = "crawl_loop"
                  /\ UNCHANGED visited
             ELSE /\ visited' = Append(visited, Head(toVisit))
                  /\ pc' = "crawl_newpage"
     ELSE /\ pc' = "crawl_finally"
          /\ UNCHANGED <<currentUrl, toVisit, visited>>
  /\ UNCHANGED <<scanVars, fnVars, env, domain, maxPages, allLinks, crawlBrowser, crawlTabs,
                 crawlOutcome, navigated, pushed, failedPages>>

\* the catch of the per-page try: log and go on with the loop
PageFailureRethrows ==
  /\ failedPages' = failedPages \cup {currentUrl}
  /\ crawlOutcome' = "threw"
  /\ pc' = "crawl_finally"
PageFailureHangs ==
  /\ failedPages' = failedPages \cup {currentUrl}
  /\ crawlOutcome' = crawlOutcome
  /\ pc' = "crawl_hung"
PageFailure ==
  /\ failedPages' = failedPages \cup {currentUrl}
  /\ crawlOutcome' = crawlOutcome
  /\ pc' = "crawl_loop"

\* browser.newPage and page.setUserAgent succeed
CrawlNewPage ==
  /\ pc = "crawl_newpage"
  /\ crawlTabs' = crawlTabs \cup {currentUrl}
  /\ pc' = "crawl_goto"
  /\ UNCHANGED <<scanVars, fnVars, env, domain, maxPages, visited, toVisit, allLinks, currentUrl,
                 crawlBrowser, crawlOutcome, navigated, pushed, failedPages>>

\* browser.newPage rejects: no tab was opened
CrawlNewPageFail ==
  /\ pc = "crawl_newpage"
  /\ PageFailure
  /\ UNCHANGED <<scanVars, fnVars, env, domain, maxPages, visited, toVisit, allLinks, currentUrl,
                 crawlBrowser, crawlTabs, navigated, pushed>>

\* page.goto resolves
CrawlGoto ==
  /\ pc = "crawl_goto"
  /\ navigated' = Append(navigated, currentUrl)
  /\ pc' = "crawl_eval"
  /\ UNCHANGED <<scanVars, fnVars, env, domain, maxPages, visited, toVisit, allLinks, currentUrl,
                 crawlBrowser, crawlTabs, crawlOutcome, pushed, failedPages>>

\* page.goto rejects (timeout, network error): the tab stays open, page.close is skipped
CrawlGotoFail ==
  /\ pc = "crawl_goto"
  /\ navigated' = Append(navigated, currentUrl)
  /\ PageFailure
  /\ UNCHANGED <<scanVars, fnVars, env, domain, maxPages, visited, toVisit, allLinks, currentUrl,
                 crawlBrowser, crawlTabs, pushed>>

\* page.evaluate resolves with the page's references; push, filter, enqueue
CrawlEvaluate ==
  /\ pc = "crawl_eval"
  /\ \E links \in PagesLeft :
       LET internalLinks == InternalLinks(links, hostname(domain))
           queue == Enqueue(toVisit, internalLinks)
       IN  /\ allLinks' = allLinks \o WithPageUrl(links, currentUrl)
           /\ toVisit' = queue
           /\ pushed' = pushed \cup
                { [url |-> queue[i], page |-> currentUrl] :
                    i \in (Len(toVisit) + 1)..Len(queue) }
  /\ pc' = "crawl_closepage"
  /\ UNCHANGED <<scanVars, fnVars, env, domain, maxPages, visited, currentUrl, crawlBrowser,
                 crawlTabs, crawlOutcome, navigated, failedPages>>

\* page.evaluate rejects: the tab stays open
CrawlEvaluateFail ==
  /\ pc = "crawl_eval"
  /\ PageFailure
  /\ UNCHANGED <<scanVars, fnVars, env, domain, maxPages, visited, toVisit, allLinks, currentUrl,
                 crawlBrowser, crawlTabs, navigated, pushed>>

\* await page.close()
CrawlClosePage ==
  /\ pc = "crawl_closepage"
  /\ crawlTabs' = crawlTabs \ {currentUrl}
  /\ pc' = "crawl_loop"
  /\ UNCHANGED <<scanVars, fnVars, env, domain, maxPages, visited, toVisit, allLinks, currentUrl,
                 crawlBrowser, crawlOutcome, navigated, pushed, failedPages>>

\* finally { await browser.close() }, then the return (or the pending exception)
CrawlFinally ==
  /\ pc = "crawl_finally"
  /\ crawlBrowser' = "closed"
  /\ crawlTabs' = {}
  /\ IF crawlOutcome = "threw"
     THEN /\ pc' = "crawl_threw"
          /\ UNCHANGED crawlOutcome
     ELSE /\ pc' = "crawl_returned"
          /\ crawlOutcome' = "returned"
  /\ UNCHANGED <<scanVars, fnVars, env, domain, maxPages, visited, toVisit, allLinks, currentUrl,
                 navigated, pushed, failedPages>>

\* ----------------------------------------------------------- checkLinkStatus

trackingPatterns ==
  { <<"bat.bing.com">>, <<"google-analytics.com">>, <<"googletagmanager.com">>,
    <<"facebook.com", "/tr">>, <<"doubleclick.net">>, <<"analytics.">>,
    <<"/pixel">>, <<"/beacon">>, <<"track.php">>, <<"collect?">> }

isTrackingPixel(url) ==
  \E pattern \in trackingPatterns : includes(toLowerCase(url), pattern)

\* Tokens matching [a-zA-Z0-9]+, and those matching [a-zA-Z]{2,}
AlnumTokens == {"a", "b", "c", "co", "com", "user", "x1"}
LetterTokens2 == {"co", "com", "user"}

\* /^mailto:[a-zA-Z0-9._-]+@[a-zA-Z0-9.-]+\.[a-zA-Z]{2,}$/.test(url)
emailPattern(url) ==
  /\ Len(url) >= 6
  /\ url[1] = "mailto:"
  /\ url[Len(url) - 1] = "."
  /\ url[Len(url)] \in LetterTokens2
  /\ \E at \in 3..(Len(url) - 3) :
       /\ url[at] = "@"
       /\ \A i \in 2..(at - 1) : url[i] \in AlnumTokens \cup {".", "_", "-"}
       /\ \A i \in (at + 1)..(Len(url) - 2) : url[i] \in AlnumTokens \cup {".", "-"}

Outcome(status, text) ==
  [status |-> status, statusText |-> text, redirectCount |-> 0, skip |-> FALSE,
   checkedWithBrowser |-> FALSE, isAffiliate |-> FALSE, treatAsWorking |-> FALSE]

NoOutcome == Outcome(Str("none"), "")

CheckBranchAffiliateFirst(url, browser) ==
  IF browser /\ isAffiliateLink(url) THEN "browser"
  ELSE IF isTrackingPixel(url) THEN "tracking"
  ELSE IF startsWith(url, <<"data:">>) \/ startsWith(url, <<"blob:">>) THEN "inline"
  ELSE IF startsWith(url, <<"mailto:">>) THEN "mailto"
  ELSE IF startsWith(url, <<"tel:">>) THEN "tel"
  ELSE IF startsWith(url, <<"javascript:">>) \/ startsWith(url, <<"#">>) THEN "internal"
  ELSE "http"
CheckBranchIgnoresHandle(url, browser) ==
  IF isTrackingPixel(url) THEN "tracking"
  ELSE IF startsWith(url, <<"data:">>) \/ startsWith(url, <<"blob:">>) THEN "inline"
  ELSE IF startsWith(url, <<"mailto:">>) THEN "mailto"
  ELSE IF startsWith(url, <<"tel:">>) THEN "tel"
  ELSE IF startsWith(url, <<"javascript:">>) \/ startsWith(url, <<"#">>) THEN "internal"
  ELSE IF isAffiliateLink(url) THEN "browser"
  ELSE "http"
\* The branch checkLinkStatus takes for url, in the order of its ifs.
CheckBranch(url, browser) ==
  IF isTrackingPixel(url) THEN "tracking"
  ELSE IF startsWith(url, <<"data:">>) \/ startsWith(url, <<"blob:">>) THEN "inline"
  ELSE IF startsWith(url, <<"mailto:">>) THEN "mailto"
  ELSE IF startsWith(url, <<"tel:">>) THEN "tel"
  ELSE IF startsWith(url, <<"javascript:">>) \/ startsWith(url, <<"#">>) THEN "internal"
  ELSE IF browser /\ isAffiliateLink(url) THEN "browser"
  ELSE "http"

\* The outcomes checkLinkStatus returns without any I/O.
SyntheticOutcome(url, branch) ==
  CASE branch = "tracking" -> [Outcome(Num(200), "Tracking Pixel") EXCEPT !.skip = TRUE]
    [] branch = "inline"   -> [Outcome(Num(200), "Inline Content") EXCEPT !.skip = TRUE]
    [] branch = "mailto"   -> IF emailPattern(url)
                              THEN Outcome(Num(200), "Valid Email")
                              ELSE Outcome(Str("Invalid"), "Malformed Email")
    [] branch = "tel"      -> Outcome(Num(200), "Phone Link")
    [] branch = "internal" -> Outcome(Num(200), "Internal Reference")

\* checkLinkWithBrowser's two returns
BrowserOutcome(status, text) ==
  [Outcome(status, text) EXCEPT !.checkedWithBrowser = TRUE, !.isAffiliate = TRUE]

AffiliateResultAlso404(result) ==
  IF IsNum(result.status, 403) \/ IsNum(result.status, 404)
  THEN [result EXCEPT !.treatAsWorking = TRUE,
                      !.statusText = "Anti-bot protection (link works in browsers)"]
  ELSE result
\* checkLinkStatus on the result of checkLinkWithBrowser: only 403 is recharacterized
AffiliateResult(result) ==
  IF IsNum(result.status, 403)
  THEN [result EXCEPT !.treatAsWorking = TRUE,
                      !.statusText = "Anti-bot protection (link works in browsers)"]
  ELSE result

\* the catch of checkLinkStatus, on axios' error.code; code stands for
\* error.message too
HttpErrorOutcome(code) ==
  IF code = "ENOTFOUND" THEN Outcome(Str("DNS_ERROR"), "Domain not found")
  ELSE IF code = "ETIMEDOUT" \/ code = "ECONNABORTED" THEN Outcome(Str("TIMEOUT"), "Request timeout")
  ELSE IF code = "ECONNREFUSED" THEN Outcome(Str("CONNECTION_REFUSED"), "Connection refused")
  ELSE Outcome(Str("ERROR"), code)

\* What went wrong when axios rejects with error.code: the failures the catch
\* of checkLinkStatus names in its status texts.
HttpFaultKind(code) ==
  IF code = "ENOTFOUND" THEN "dns"
  ELSE IF code = "ETIMEDOUT" THEN "timeout"
  ELSE IF code = "ECONNABORTED" THEN "aborted"
  ELSE IF code = "ECONNREFUSED" THEN "refused"
  ELSE "other"

\* error.message of a rejected page.goto, by what went wrong
BrowserErrorMessage(kind) ==
  IF kind = "dns" THEN "net::ERR_NAME_NOT_RESOLVED"
  ELSE IF kind = "timeout" THEN "Navigation timeout of 15000 ms exceeded"
  ELSE IF kind = "refused" THEN "net::ERR_CONNECTION_REFUSED"
  ELSE "navigation failed"

\* message is error.message of the rejection
Fault(url, via, kind, message) ==
  [url |-> url, via |-> via, kind |-> kind, message |-> message]

\* --------------------------------------------------------- analyzeWithAI

\* `${linkText}-${linkUrl}-${context}`: the status is not part of the key
CacheKey(link) == <<link.text, link.url, link.context>>
CacheHas(key) == \E e \in analysisCache : e.key = key
CacheGetForgets(key) == NullAI
CacheGet(key) == (CHOOSE e \in analysisCache : e.key = key).value

\* --------------------------------------------------- app.post('/api/scan')

DefaultMaxPages == 50

NoResponse == [code |-> 0, healthScore |-> Str("none"), results |-> << >>, pages |-> << >>, totalLinks |-> 0]

RECURSIVE CountUrl(_, _)
\* linkAppearances.get(url): one per reference with that url
CountUrl(links, url) ==
  IF links = << >> THEN 0
  ELSE (IF Head(links).url = url THEN 1 ELSE 0) + CountUrl(Tail(links), url)

UniqueLinksKeepsAll(links, seen) == links
RECURSIVE UniqueLinks(_, _)
\* Array.from(new Set(links.map(l => l.url))).map(url => links.find(l => l.url === url))
UniqueLinks(links, seen) ==
  IF links = << >> THEN << >>
  ELSE IF Head(links).url \in seen THEN UniqueLinks(Tail(links), seen)
       ELSE <<Head(links)>> \o UniqueLinks(Tail(links), seen \cup {Head(links).url})

CurrentLink == uniqueLinks[idx + 1]

needsAnalysisAlways(si, link) == TRUE
needsAnalysis(si, link) ==
  \/ ~IsNum(si.status, 200)
  \/ si.redirectCount > 0
  \/ ContextHas(link.context, "cta")
  \/ ContextHas(link.context, "button")

isActualIssueKeepsRedirects(si) ==
  /\ ~isSuccessStatus(si.status)
  /\ ~si.treatAsWorking
  /\ ~IsNum(si.status, 200)
isActualIssueNumericOnly(si) ==
  /\ si.status.isNum
  /\ ~isSuccessStatus(si.status)
  /\ ~si.treatAsWorking
  /\ ~IsNum(si.status, 200)
  /\ ~(si.status.isNum /\ si.status.num >= 300 /\ si.status.num < 400)
isActualIssue(si) ==
  /\ ~isSuccessStatus(si.status)
  /\ ~si.treatAsWorking
  /\ ~IsNum(si.status, 200)
  /\ ~(si.status.isNum /\ si.status.num >= 300 /\ si.status.num < 400)

\* the two `continue`s that drop an outcome before the issue test
SkipAffiliate403Never(si) == FALSE
SkipAffiliate403(si) == IsNum(si.status, 403) /\ si.isAffiliate
Skip304Never(si) == FALSE
Skip304(si) == IsNum(si.status, 304)

\* the condition of the if that builds and pushes an issue
ShouldReport(si, ai) ==
  isActualIssue(si) \/ (~ai.isNull /\ ai.issueType # "No Issue")

shouldTakeScreenshotAlso403(si) ==
  /\ \/ IsNum(si.status, 404)
     \/ IsNum(si.status, 403)
     \/ IsNum(si.status, 500)
     \/ IsStr(si.status, "ERROR")
     \/ IsStr(si.status, "DNS_ERROR")
     \/ IsStr(si.status, "TIMEOUT")
  /\ ~si.treatAsWorking
shouldTakeScreenshot(si) ==
  /\ \/ IsNum(si.status, 404)
     \/ IsNum(si.status, 500)
     \/ IsStr(si.status, "ERROR")
     \/ IsStr(si.status, "DNS_ERROR")
     \/ IsStr(si.status, "TIMEOUT")
  /\ ~si.treatAsWorking

\* which literal message the if chain picks, and the annotation appended to it
friendlyMessage(si, ai) ==
  LET text ==
        IF IsNum(si.status, 404) THEN "Page not found (404)"
        ELSE IF IsNum(si.status, 403) THEN "Access forbidden (403)"
        ELSE IF IsNum(si.status, 500) THEN "Server error (500)"
        ELSE IF IsStr(si.status, "TIMEOUT") THEN "Request timeout"
        ELSE IF IsStr(si.status, "DNS_ERROR") THEN "Domain not found"
        ELSE IF IsStr(si.status, "CONNECTION_REFUSED") THEN "Connection refused"
        ELSE IF IsStr(si.status, "ERROR") THEN "Connection error"
        ELSE IF si.redirectCount > 0 /\ GE(si.status, 300) /\ LT(si.status, 400)
             THEN "Working but has redirects"
        ELSE IF ~ai.isNull /\ ai.analysis # "" THEN ai.analysis
        ELSE "Link returned status"
      note == IF si.isAffiliate THEN "affiliate"
              ELSE IF si.checkedWithBrowser THEN "browser" ELSE ""
  IN  [text |-> text, note |-> note]

IssuePriorityFromEnrichmentOnly(si, ai) == ai.priority
\* aiAnalysis?.priority || determinePriorityFromStatus(status)
IssuePriority(si, ai) ==
  IF ~ai.isNull /\ ai.priority # "" THEN ai.priority
  ELSE determinePriorityFromStatus(si.status)

\* aiAnalysis?.issueType || getIssueType(status)
IssueType(si, ai) ==
  IF ~ai.isNull /\ ai.issueType # "" THEN ai.issueType
  ELSE getIssueType(si.status)

\* the object pushed onto results
Issue(link, si, ai, screenshot) ==
  [id |-> Len(results) + 1,
   pageUrl |-> link.pageUrl,
   linkText |-> link.text,
   linkUrl |-> link.url,
   status |-> si.status,
   statusText |-> si.statusText,
   redirectCount |-> si.redirectCount,
   priority |-> IssuePriority(si, ai),
   type |-> IssueType(si, ai),
   context |-> link.context,
   aiAnalysis |-> friendlyMessage(si, ai),
   impactScore |-> calculateImpactScore(si.status, link.context, CountUrl(allLinks, link.url)),
   appearancesCount |-> CountUrl(allLinks, link.url),
   linkType |-> link.type,
   screenshot |-> screenshot]

priorityOrder(p) ==
  CASE p = "Critical" -> 0
    [] p = "High"     -> 1
    [] p = "Medium"   -> 2
    [] p = "Low"      -> 3

RECURSIVE InsertByPriority(_, _)
\* x goes after every element that does not sort after it (a stable sort)
InsertByPriority(sorted, x) ==
  IF sorted = << >> THEN <<x>>
  ELSE IF priorityOrder(Head(sorted).priority) - priorityOrder(x.priority) <= 0
       THEN <<Head(sorted)>> \o InsertByPriority(Tail(sorted), x)
       ELSE <<x>> \o sorted

RECURSIVE SortByPriority(_)
\* results.sort((a, b) => priorityOrder[a.priority] - priorityOrder[b.priority])
SortByPriority(issues) ==
  IF issues = << >> THEN << >>
  ELSE InsertByPriority(SortByPriority(SubSeq(issues, 1, Len(issues) - 1)),
                        issues[Len(issues)])

\* priorityOrder has an entry for p
KnownPriority(p) == p \in {"Critical", "High", "Medium", "Low"}

\* every rearrangement of issues
Rearrangements(issues) ==
  LET n == Len(issues)
  IN  { [i \in 1..n |-> issues[f[i]]] :
          f \in { g \in [1..n -> 1..n] : \A a, b \in 1..n : a # b => g[a] # g[b] } }

\* What results.sort can leave.  Array.prototype.sort is stable.  For a
\* priority without an entry the comparator returns undefined - n = NaN, which
\* sort reads as 0: such an Issue compares equal to every other one, and when
\* two other Issues differ the comparator is inconsistent and the order is
\* implementation-defined.
SortOutcomes(issues) ==
  IF \A i \in 1..Len(issues) : KnownPriority(issues[i].priority)
  THEN {SortByPriority(issues)}
  ELSE IF \A i, j \in 1..Len(issues) :
            (KnownPriority(issues[i].priority) /\ KnownPriority(issues[j].priority))
              => issues[i].priority = issues[j].priority
  THEN {issues}
  ELSE Rearrangements(issues)

\* IEEE 754 double arithmetic on positive values, as the JavaScript number
\* operators compute it.  A double is [bits, exp]: bits is its 53-bit
\* significand, least significant bit first, and its value is bits * 2^exp.

RECURSIVE BitsValue(_)
BitsValue(v) == IF v = << >> THEN 0 ELSE Head(v) + 2 * BitsValue(Tail(v))

RECURSIVE BitsInc(_)
BitsInc(b) ==
  IF b = << >> THEN <<1>>
  ELSE IF Head(b) = 0 THEN <<1>> \o Tail(b)
  ELSE <<0>> \o BitsInc(Tail(b))

RECURSIVE BitsAdd(_, _, _)
BitsAdd(p, q, carry) ==
  IF p = << >> /\ q = << >> THEN (IF carry = 1 THEN <<1>> ELSE << >>)
  ELSE LET sum == (IF p = << >> THEN 0 ELSE Head(p)) + (IF q = << >> THEN 0 ELSE Head(q)) + carry
       IN  <<sum % 2>> \o BitsAdd(IF p = << >> THEN p ELSE Tail(p),
                                  IF q = << >> THEN q ELSE Tail(q), sum \div 2)

BitsShiftLeft(w, n) == [k \in 1..n |-> 0] \o w

\* round an exact significand of any length to 53 bits, ties to even
DoubleRound(sig, e, sticky) ==
  LET drop == Len(sig) - 53
  IN  IF drop <= 0
      THEN [bits |-> sig, exp |-> e]
      ELSE LET kept == SubSeq(sig, drop + 1, Len(sig))
               half == sig[drop] = 1
               below == sticky \/ \E k \in 1..(drop - 1) : sig[k] = 1
               up == half /\ (below \/ kept[1] = 1)
               rounded == IF up THEN BitsInc(kept) ELSE kept
           IN  IF Len(rounded) > 53
               THEN [bits |-> Tail(rounded), exp |-> e + drop + 1]
               ELSE [bits |-> rounded, exp |-> e + drop]

\* the remainder of r * 2^k by d, for k <= 53 and small d
RemainderAfter(r, d, k) ==
  (((r * ((2 ^ (k \div 2)) % d)) % d) * ((2 ^ (k - (k \div 2))) % d)) % d

\* the next n bits of r / d in binary, least significant first, for r < d
QuotientBits(r, d, n) ==
  [k \in 1..n |-> IF 2 * RemainderAfter(r, d, n - k) >= d THEN 1 ELSE 0]

\* the remainder after those n bits
QuotientRest(r, d, n) == RemainderAfter(r, d, n)

RECURSIVE ShiftsToReach(_, _)
\* how often a is doubled to reach d
ShiftsToReach(a, d) == IF a >= d THEN 0 ELSE 1 + ShiftsToReach(2 * a, d)

RECURSIVE DoubledToReach(_, _)
DoubledToReach(a, d) == IF a >= d THEN a ELSE DoubledToReach(2 * a, d)

\* a / d for integers 0 < a <= d: 54 quotient bits, then rounded to 53
DoubleDivide(a, d) ==
  LET shifts == ShiftsToReach(a, d)
      first == DoubledToReach(a, d) - d
  IN  DoubleRound(Append(QuotientBits(first, d, 53), 1), 0 - 53 - shifts,
                  QuotientRest(first, d, 53) # 0)

\* x * 100: the exact product 64x + 32x + 4x, rounded to 53 bits
DoubleTimes100(x) ==
  DoubleRound(BitsAdd(BitsAdd(BitsShiftLeft(x.bits, 6), BitsShiftLeft(x.bits, 5), 0),
                      BitsShiftLeft(x.bits, 2), 0), x.exp, FALSE)

\* Math.round(x) for x >= 0: the nearest integer, a half rounded up
MathRound(x) ==
  LET n == 0 - x.exp
      len == Len(x.bits)
  IN  IF n < 1 THEN BitsValue(BitsShiftLeft(x.bits, 0 - n))
      ELSE IF n > len THEN 0
      ELSE BitsValue(SubSeq(x.bits, n + 1, len)) + x.bits[n]

healthScoreOverPages(totalLinks, issueLinks) ==
  IF Len(visited) = 0 THEN Str("NaN")
  ELSE Num(((Len(visited) - issueLinks) * 100) \div Len(visited))
\* Math.round(((totalLinks - issueLinks) / totalLinks) * 100); 0/0 is NaN
healthScore(totalLinks, issueLinks) ==
  IF totalLinks = 0 THEN Str("NaN")
  ELSE IF totalLinks = issueLinks THEN Num(0)
  ELSE Num(MathRound(DoubleTimes100(DoubleDivide(totalLinks - issueLinks, totalLinks))))

\* res.json on a number: JSON.stringify writes NaN as null
jsonNumberKeepsNaN(x) == x
jsonNumber(x) == IF IsStr(x, "NaN") THEN Str("null") ELSE x

\* browser.close() behind its null test
CloseIfLaunchedForgets(b) == b
CloseIfLaunched(b) == IF b # "none" THEN "closed" ELSE b

\* if (!domain || !isValidUrl(domain)) return res.status(400)...
ScanValidate ==
  /\ pc = "scan_start"
  /\ IF reqDomain = << >> \/ ~isValidUrl(reqDomain)
     THEN /\ response' = [NoResponse EXCEPT !.code = 400]
          /\ pc' = "scan_done"
          /\ UNCHANGED <<domain, maxPages, toVisit>>
     ELSE /\ domain' = reqDomain
          /\ maxPages' = DefaultMaxPages
          /\ toVisit' = <<reqDomain>>
          /\ pc' = "crawl_start"
          /\ UNCHANGED response
  /\ UNCHANGED <<env, visited, allLinks, currentUrl, crawlBrowser, crawlTabs,
                 crawlOutcome, navigated, pushed, failedPages>>
  /\ UNCHANGED <<fnVars, faults, captureFailures, reqDomain, affiliateBrowser,
                 screenshotBrowser,
                 affTabs, shotTabs, uniqueLinks, idx, statusInfo, aiAnalysis,
                 results, analysisCache, failure, checks, aiCalls, captures>>

LaunchAffiliate ==
  /\ pc = "crawl_returned"
  /\ affiliateBrowser' = "open"
  /\ pc' = "launch_screenshot"
  /\ UNCHANGED <<crawlVars, fnVars, captureFailures, faults, reqDomain, screenshotBrowser, affTabs,
                 shotTabs, uniqueLinks, idx, statusInfo, aiAnalysis, results,
                 response, analysisCache, failure, checks, aiCalls, captures>>

LaunchAffiliateFail ==
  /\ pc = "crawl_returned"
  /\ failure' = "launch_affiliate"
  /\ pc' = "scan_catch"
  /\ UNCHANGED <<crawlVars, fnVars, captureFailures, faults, reqDomain, affiliateBrowser,
                 screenshotBrowser, affTabs, shotTabs, uniqueLinks, idx,
                 statusInfo, aiAnalysis, results, response, analysisCache,
                 checks, aiCalls, captures>>

\* the second launch, then linkAppearances and uniqueLinks
LaunchScreenshot ==
  /\ pc = "launch_screenshot"
  /\ screenshotBrowser' = "open"
  /\ uniqueLinks' = UniqueLinks(allLinks, {})
  /\ idx' = 0
  /\ pc' = "verify_loop"
  /\ UNCHANGED <<crawlVars, fnVars, captureFailures, faults, reqDomain, affiliateBrowser, affTabs,
                 shotTabs, statusInfo, aiAnalysis, results, response,
                 analysisCache, failure, checks, aiCalls, captures>>

LaunchScreenshotFail ==
  /\ pc = "launch_screenshot"
  /\ failure' = "launch_screenshot"
  /\ pc' = "scan_catch"
  /\ UNCHANGED <<crawlVars, fnVars, captureFailures, faults, reqDomain, affiliateBrowser,
                 screenshotBrowser, affTabs, shotTabs, uniqueLinks, idx,
                 statusInfo, aiAnalysis, results, response, analysisCache,
                 checks, aiCalls, captures>>

\* the head of the for loop and checkLinkStatus up to its first await
VerifyLoop ==
  /\ pc = "verify_loop"
  /\ IF idx < Len(uniqueLinks)
     THEN LET url == CurrentLink.url
              branch == CheckBranch(url, affiliateBrowser # "none")
          IN  /\ checks' = Append(checks, [url |-> url, via |-> branch])
              /\ IF branch \in {"tracking", "inline"}
                 THEN /\ statusInfo' = SyntheticOutcome(url, branch)
                      /\ idx' = idx + 1
                      /\ pc' = "verify_loop"
                 ELSE IF branch \in {"mailto", "tel", "internal"}
                 THEN /\ statusInfo' = SyntheticOutcome(url, branch)
                      /\ pc' = "analyze"
                      /\ UNCHANGED idx
                 ELSE /\ pc' = IF branch = "browser" THEN "aff_newpage" ELSE "http_get"
                      /\ UNCHANGED <<statusInfo, idx>>
     ELSE /\ pc' = "scan_report"
          /\ UNCHANGED <<checks, statusInfo, idx>>
  /\ captureFailures' = << >>
  /\ UNCHANGED <<crawlVars, fnVars, faults, reqDomain, affiliateBrowser,
                 screenshotBrowser, affTabs, shotTabs, uniqueLinks,
                 aiAnalysis, results, response, analysisCache, failure,
                 aiCalls, captures>>

\* checkLinkWithBrowser: browser.newPage and setUserAgent
AffNewPage ==
  /\ pc = "aff_newpage"
  /\ "opens" \in Net.tabOutcomes
  /\ affTabs' = affTabs \cup {CurrentLink.url}
  /\ pc' = "aff_goto"
  /\ UNCHANGED <<crawlVars, fnVars, captureFailures, faults, reqDomain, affiliateBrowser,
                 screenshotBrowser, shotTabs, uniqueLinks, idx, statusInfo,
                 aiAnalysis, results, response, analysisCache, failure,
                 checks, aiCalls, captures>>

\* browser.newPage rejects: page is undefined in the catch
AffNewPageFail ==
  /\ pc = "aff_newpage"
  /\ "fails" \in Net.tabOutcomes
  /\ statusInfo' = AffiliateResult(BrowserOutcome(Str("ERROR"), "newPage failed"))
  /\ faults' = Append(faults, Fault(CurrentLink.url, "browser", "other", "newPage failed"))
  /\ pc' = "analyze"
  /\ UNCHANGED <<crawlVars, fnVars, captureFailures, reqDomain, affiliateBrowser,
                 screenshotBrowser, affTabs, shotTabs, uniqueLinks, idx,
                 aiAnalysis, results, response, analysisCache, failure,
                 checks, aiCalls, captures>>

\* page.goto resolves with a response; page.close
AffGoto ==
  /\ pc = "aff_goto"
  /\ \E status \in Net.browserReplies :
       statusInfo' = AffiliateResult(BrowserOutcome(status, "status text"))
  /\ affTabs' = affTabs \ {CurrentLink.url}
  /\ pc' = "analyze"
  /\ UNCHANGED <<crawlVars, fnVars, captureFailures, faults, reqDomain, affiliateBrowser,
                 screenshotBrowser, shotTabs, uniqueLinks, idx, aiAnalysis,
                 results, response, analysisCache, failure, checks, aiCalls,
                 captures>>

\* page.goto rejects or resolves with null: the catch closes the page
AffGotoFail ==
  /\ pc = "aff_goto"
  /\ \E kind \in Net.browserErrors :
       /\ statusInfo' = AffiliateResult(BrowserOutcome(Str("ERROR"), BrowserErrorMessage(kind)))
       /\ faults' = Append(faults, Fault(CurrentLink.url, "browser", kind, BrowserErrorMessage(kind)))
  /\ affTabs' = affTabs \ {CurrentLink.url}
  /\ pc' = "analyze"
  /\ UNCHANGED <<crawlVars, fnVars, captureFailures, reqDomain, affiliateBrowser,
                 screenshotBrowser, shotTabs, uniqueLinks, idx, aiAnalysis,
                 results, response, analysisCache, failure, checks, aiCalls,
                 captures>>

\* axios.get resolves: validateStatus accepts every status
HttpGet ==
  /\ pc = "http_get"
  /\ \E reply \in Net.httpReplies :
       statusInfo' = [Outcome(reply.status, "status text")
                        EXCEPT !.redirectCount = reply.redirectCount]
  /\ pc' = "analyze"
  /\ UNCHANGED <<crawlVars, fnVars, captureFailures, faults, reqDomain, affiliateBrowser,
                 screenshotBrowser, affTabs, shotTabs, uniqueLinks, idx,
                 aiAnalysis, results, response, analysisCache, failure,
                 checks, aiCalls, captures>>

\* axios.get rejects with an error code
HttpGetFail ==
  /\ pc = "http_get"
  /\ \E code \in Net.httpErrors :
       /\ statusInfo' = HttpErrorOutcome(code)
       /\ faults' = Append(faults, Fault(CurrentLink.url, "http", HttpFaultKind(code), code))
  /\ pc' = "analyze"
  /\ UNCHANGED <<crawlVars, fnVars, captureFailures, reqDomain, affiliateBrowser,
                 screenshotBrowser, affTabs, shotTabs, uniqueLinks, idx,
                 aiAnalysis, results, response, analysisCache, failure,
                 checks, aiCalls, captures>>

\* analyzeWithAI when needed, then the handler up to takeErrorScreenshot's
\* first await or to the end of the iteration
Analyze ==
  /\ pc = "analyze"
  /\ LET link == CurrentLink
         key == CacheKey(link)
         needs == needsAnalysis(statusInfo, link)
         asked == needs /\ ~CacheHas(key)
     IN  \E reply \in (IF asked THEN Net.aiReplies ELSE {NullAI}) :
           LET ai == IF ~needs THEN NullAI
                     ELSE IF CacheHas(key) THEN CacheGet(key)
                     ELSE reply
           IN  /\ aiAnalysis' = ai
               /\ aiCalls' = IF needs THEN Append(aiCalls, link.url) ELSE aiCalls
               /\ analysisCache' =
                    IF asked /\ ~reply.isNull
                    THEN analysisCache \cup {[key |-> key, value |-> reply]}
                    ELSE analysisCache
               /\ IF SkipAffiliate403(statusInfo) \/ Skip304(statusInfo)
                     \/ ~ShouldReport(statusInfo, ai)
                  THEN /\ idx' = idx + 1
                       /\ pc' = "verify_loop"
                       /\ UNCHANGED <<results, captures>>
                  ELSE IF shouldTakeScreenshot(statusInfo)
                  THEN /\ captures' = Append(captures, link.url)
                       /\ pc' = "shot_newpage"
                       /\ UNCHANGED <<results, idx>>
                  ELSE /\ results' = Append(results, Issue(link, statusInfo, ai, "null"))
                       /\ idx' = idx + 1
                       /\ pc' = "verify_loop"
                       /\ UNCHANGED captures
  /\ UNCHANGED <<crawlVars, fnVars, captureFailures, faults, reqDomain, affiliateBrowser,
                 screenshotBrowser, affTabs, shotTabs, uniqueLinks,
                 statusInfo, response, failure, checks>>

\* takeErrorScreenshot: browser.newPage resolves
ShotNewPage ==
  /\ pc = "shot_newpage"
  /\ shotTabs' = shotTabs \cup {CurrentLink.pageUrl}
  /\ pc' = "shot_setup"
  /\ UNCHANGED <<crawlVars, fnVars, captureFailures, faults, reqDomain, affiliateBrowser,
                 screenshotBrowser, affTabs, uniqueLinks, idx, statusInfo,
                 aiAnalysis, results, response, analysisCache, failure,
                 checks, aiCalls, captures>>

\* the step of takeErrorScreenshot that runs at a position of the handler
CaptureStep(at) ==
  IF at = "shot_newpage" THEN "newPage"
  ELSE IF at = "shot_setup" THEN "setup"
  ELSE IF at = "shot_highlight" THEN "evaluation"
  ELSE "screenshot"

\* takeErrorScreenshot's catch: close the page if one was opened
ClosePageInCatchForgets(tabs, page) == tabs
ClosePageInCatch(tabs, page) == tabs \ {page}

\* takeErrorScreenshot returned null: the handler pushes the issue without a
\* screenshot and goes on to the next link
CaptureFailedRethrows ==
  /\ pc' = "scan_catch"
  /\ UNCHANGED <<results, idx>>
CaptureFailed ==
  /\ results' = Append(results, Issue(CurrentLink, statusInfo, aiAnalysis, "null"))
  /\ idx' = idx + 1
  /\ pc' = "verify_loop"

\* browser.newPage rejects: page is null, the catch returns null
ShotNewPageFail ==
  /\ pc = "shot_newpage"
  /\ captureFailures' = Append(captureFailures, [url |-> CurrentLink.url, step |-> "newPage"])
  /\ CaptureFailed
  /\ UNCHANGED <<crawlVars, fnVars, faults, reqDomain, affiliateBrowser,
                 screenshotBrowser, affTabs, shotTabs, uniqueLinks,
                 statusInfo, aiAnalysis, response, analysisCache, failure,
                 checks, aiCalls, captures>>

\* setCacheEnabled, setViewport, setUserAgent
ShotSetup ==
  /\ pc = "shot_setup"
  /\ pc' = "shot_goto"
  /\ UNCHANGED <<crawlVars, fnVars, captureFailures, faults, reqDomain, affiliateBrowser,
                 screenshotBrowser, affTabs, shotTabs, uniqueLinks, idx,
                 statusInfo, aiAnalysis, results, response, analysisCache,
                 failure, checks, aiCalls, captures>>

\* page.goto(pageUrl) resolves; the 1.5 s wait
ShotGoto ==
  /\ pc = "shot_goto"
  /\ pc' = "shot_highlight"
  /\ UNCHANGED <<crawlVars, fnVars, captureFailures, faults, reqDomain, affiliateBrowser,
                 screenshotBrowser, affTabs, shotTabs, uniqueLinks, idx,
                 statusInfo, aiAnalysis, results, response, analysisCache,
                 failure, checks, aiCalls, captures>>

\* page.goto(pageUrl) rejects, with a timeout or another error: the inner
\* catch logs it and the capture goes on
ShotGotoFail ==
  /\ pc = "shot_goto"
  /\ captureFailures' = Append(captureFailures, [url |-> CurrentLink.url, step |-> "navigation"])
  /\ pc' = "shot_highlight"
  /\ UNCHANGED <<crawlVars, fnVars, faults, reqDomain, affiliateBrowser,
                 screenshotBrowser, affTabs, shotTabs, uniqueLinks, idx,
                 statusInfo, aiAnalysis, results, response, analysisCache,
                 failure, checks, aiCalls, captures>>

\* the CSS injection (a failure is tolerated), the highlight evaluate, the 2 s wait
ShotHighlight ==
  /\ pc = "shot_highlight"
  /\ pc' = "shot_capture"
  /\ UNCHANGED <<crawlVars, fnVars, captureFailures, faults, reqDomain, affiliateBrowser,
                 screenshotBrowser, affTabs, shotTabs, uniqueLinks, idx,
                 statusInfo, aiAnalysis, results, response, analysisCache,
                 failure, checks, aiCalls, captures>>

\* page.screenshot resolves, page.close, return screenshot; the handler pushes
ShotCapture ==
  /\ pc = "shot_capture"
  /\ shotTabs' = shotTabs \ {CurrentLink.pageUrl}
  /\ results' = Append(results, Issue(CurrentLink, statusInfo, aiAnalysis, "png"))
  /\ idx' = idx + 1
  /\ pc' = "verify_loop"
  /\ UNCHANGED <<crawlVars, fnVars, captureFailures, faults, reqDomain, affiliateBrowser,
                 screenshotBrowser, affTabs, uniqueLinks, statusInfo,
                 aiAnalysis, response, analysisCache, failure, checks,
                 aiCalls, captures>>

\* a page setter, the highlight evaluate or page.screenshot rejects: the
\* outer catch closes the page and returns null
ShotCaptureFail ==
  /\ pc \in {"shot_setup", "shot_highlight", "shot_capture"}
  /\ captureFailures' = Append(captureFailures, [url |-> CurrentLink.url, step |-> CaptureStep(pc)])
  /\ shotTabs' = ClosePageInCatch(shotTabs, CurrentLink.pageUrl)
  /\ CaptureFailed
  /\ UNCHANGED <<crawlVars, fnVars, faults, reqDomain, affiliateBrowser,
                 screenshotBrowser, affTabs, uniqueLinks, statusInfo,
                 aiAnalysis, response, analysisCache, failure, checks,
                 aiCalls, captures>>

\* an exception raised inside the for loop reaches the handler's catch
ScanLoopThrow ==
  /\ pc = "verify_loop"
  /\ idx < Len(uniqueLinks)
  /\ failure' = "loop"
  /\ pc' = "scan_catch"
  /\ UNCHANGED <<crawlVars, fnVars, captureFailures, faults, reqDomain, affiliateBrowser,
                 screenshotBrowser, affTabs, shotTabs, uniqueLinks, idx,
                 statusInfo, aiAnalysis, results, response, analysisCache,
                 checks, aiCalls, captures>>

\* health score, stats, sort, res.json
ScanReport ==
  /\ pc = "scan_report"
  /\ \E sorted \in SortOutcomes(results) :
       response' = [code |-> 200,
                    healthScore |-> jsonNumber(healthScore(Len(allLinks), Len(results))),
                    results |-> sorted,
                    pages |-> visited,
                    totalLinks |-> Len(allLinks)]
  /\ pc' = "scan_finally_affiliate"
  /\ UNCHANGED <<crawlVars, fnVars, captureFailures, faults, reqDomain, affiliateBrowser,
                 screenshotBrowser, affTabs, shotTabs, uniqueLinks, idx,
                 statusInfo, aiAnalysis, results, analysisCache, failure,
                 checks, aiCalls, captures>>

\* catch (error) { res.status(500).json(...) }
ScanCatch ==
  /\ pc \in {"crawl_threw", "scan_catch"}
  /\ failure' = IF pc = "crawl_threw" THEN "crawl" ELSE failure
  /\ response' = [NoResponse EXCEPT !.code = 500]
  /\ pc' = "scan_finally_affiliate"
  /\ UNCHANGED <<crawlVars, fnVars, captureFailures, faults, reqDomain, affiliateBrowser,
                 screenshotBrowser, affTabs, shotTabs, uniqueLinks, idx,
                 statusInfo, aiAnalysis, results, analysisCache, checks,
                 aiCalls, captures>>

\* finally: if (affiliateBrowser) await affiliateBrowser.close()
ScanFinallyAffiliate ==
  /\ pc = "scan_finally_affiliate"
  /\ affiliateBrowser' = CloseIfLaunched(affiliateBrowser)
  /\ affTabs' = {}
  /\ pc' = "scan_finally_screenshot"
  /\ UNCHANGED <<crawlVars, fnVars, captureFailures, faults, reqDomain, screenshotBrowser, shotTabs,
                 uniqueLinks, idx, statusInfo, aiAnalysis, results, response,
                 analysisCache, failure, checks, aiCalls, captures>>

\* finally: if (screenshotBrowser) await screenshotBrowser.close()
ScanFinallyScreenshot ==
  /\ pc = "scan_finally_screenshot"
  /\ screenshotBrowser' = CloseIfLaunched(screenshotBrowser)
  /\ shotTabs' = {}
  /\ pc' = "scan_done"
  /\ UNCHANGED <<crawlVars, fnVars, captureFailures, faults, reqDomain, affiliateBrowser, affTabs,
                 uniqueLinks, idx, statusInfo, aiAnalysis, results, response,
                 analysisCache, failure, checks, aiCalls, captures>>

ScanNext ==
  \/ ScanValidate
  \/ LaunchAffiliate
  \/ LaunchAffiliateFail
  \/ LaunchScreenshot
  \/ LaunchScreenshotFail
  \/ VerifyLoop
  \/ AffNewPage
  \/ AffNewPageFail
  \/ AffGoto
  \/ AffGotoFail
  \/ HttpGet
  \/ HttpGetFail
  \/ Analyze
  \/ ShotNewPage
  \/ ShotNewPageFail
  \/ ShotSetup
  \/ ShotGoto
  \/ ShotGotoFail
  \/ ShotHighlight
  \/ ShotCapture
  \/ ShotCaptureFail
  \/ ScanLoopThrow
  \/ ScanReport
  \/ ScanCatch
  \/ ScanFinallyAffiliate
  \/ ScanFinallyScreenshot

CrawlNext ==
  \/ CrawlLaunch
  \/ CrawlLaunchFail
  \/ CrawlLoop
  \/ CrawlNewPage
  \/ CrawlNewPageFail
  \/ CrawlGoto
  \/ CrawlGotoFail
  \/ CrawlEvaluate
  \/ CrawlEvaluateFail
  \/ CrawlClosePage
  \/ CrawlFinally

\* ------------------------------------------------------------ specifications

\* the handler's state before a request
ScanVarsInit ==
  /\ affiliateBrowser = "none"
  /\ screenshotBrowser = "none"
  /\ affTabs = {}
  /\ shotTabs = {}
  /\ uniqueLinks = << >>
  /\ idx = 0
  /\ statusInfo = NoOutcome
  /\ aiAnalysis = NullAI
  /\ results = << >>
  /\ response = NoResponse
  /\ analysisCache = {}
  /\ failure = "none"
  /\ checks = << >>
  /\ aiCalls = << >>
  /\ captures = << >>
  /\ faults = << >>
  /\ captureFailures = << >>

\* no function is being called on its own
NoArgs == [status |-> Str("none"), context |-> << >>, appearanceCount |-> 0]

FnVarsInit ==
  /\ fnArgs = NoArgs
  /\ fnResult = Str("none")

\* crawlWebsite(domain, maxPages) called on its own
CrawlInit ==
  /\ pc = "crawl_start"
  /\ env = "crawl"
  /\ domain = U_ROOT
  /\ maxPages \in 0..MaxPagesArg
  /\ visited = << >>
  /\ toVisit = <<domain>>
  /\ allLinks = << >>
  /\ currentUrl = << >>
  /\ crawlBrowser = "none"
  /\ crawlTabs = {}
  /\ crawlOutcome = "none"
  /\ navigated = << >>
  /\ pushed = {}
  /\ failedPages = {}
  /\ reqDomain = domain
  /\ ScanVarsInit
  /\ FnVarsInit

CrawlSpec == CrawlInit /\ [][CrawlNext]_vars

\* crawlWebsite(domain, maxPages) called on a site whose pages link to each
\* other
CycleInit ==
  /\ pc = "crawl_start"
  /\ env = "cycle"
  /\ domain = U_ROOT
  /\ maxPages \in 0..MaxPagesArg
  /\ visited = << >>
  /\ toVisit = <<domain>>
  /\ allLinks = << >>
  /\ currentUrl = << >>
  /\ crawlBrowser = "none"
  /\ crawlTabs = {}
  /\ crawlOutcome = "none"
  /\ navigated = << >>
  /\ pushed = {}
  /\ failedPages = {}
  /\ reqDomain = domain
  /\ ScanVarsInit
  /\ FnVarsInit

\* crawlWebsite when every await settles: launch, newPage, goto (30 s
\* timeout), evaluate, close each resolve or reject in the end
CrawlLiveSpec == CycleInit /\ [][CrawlNext]_vars /\ WF_vars(CrawlNext)

\* a POST /api/scan request arrives
IdleInit ==
  /\ domain = << >>
  /\ maxPages = 0
  /\ visited = << >>
  /\ toVisit = << >>
  /\ allLinks = << >>
  /\ currentUrl = << >>
  /\ crawlBrowser = "none"
  /\ crawlTabs = {}
  /\ crawlOutcome = "none"
  /\ navigated = << >>
  /\ pushed = {}
  /\ failedPages = {}
  /\ ScanVarsInit

HandlerInit ==
  /\ pc = "scan_start"
  /\ IdleInit
  /\ FnVarsInit

Init ==
  /\ reqDomain \in {U_ROOT, << >>, U_REL}
  /\ env = "scan"
  /\ HandlerInit

Next == CrawlNext \/ ScanNext

Spec == Init /\ [][Next]_vars

\* a POST /api/scan request for a site whose links are of every class
VerifyInit ==
  /\ reqDomain = U_ROOT
  /\ env = "verify"
  /\ HandlerInit

VerifySpec == VerifyInit /\ [][Next]_vars

\* a POST /api/scan request for a site whose links can all become Issues
RankInit ==
  /\ reqDomain = U_ROOT
  /\ env = "rank"
  /\ HandlerInit

RankSpec == RankInit /\ [][Next]_vars

\* a POST /api/scan request for a site whose targets answer with every class
\* of status
StatusInit ==
  /\ reqDomain = U_ROOT
  /\ env = "status"
  /\ HandlerInit

StatusSpec == StatusInit /\ [][Next]_vars

\* what a report says of its Issues, in order: which they are, their priority
\* and their scores
Ranked(issues) ==
  [i \in 1..Len(issues) |->
     [id |-> issues[i].id, linkUrl |-> issues[i].linkUrl, status |-> issues[i].status,
      priority |-> issues[i].priority, type |-> issues[i].type,
      impactScore |-> issues[i].impactScore,
      appearancesCount |-> issues[i].appearancesCount]]

\* a POST /api/scan request to a process that has served none yet, for a site
\* and a network whose answers are fixed
ReplayInit ==
  /\ pc = "scan_start"
  /\ env = "replay"
  /\ reqDomain = U_ROOT
  /\ IdleInit
  /\ \E page \in ReplayPages :
       \E answers \in [{page[i].url : i \in 1..Len(page)} -> ReplayAnswers] :
         fnArgs = [page |-> page, answers |-> answers, other |-> answers,
                   run |-> 1, runs |-> 2]
  /\ fnResult = Str("none")

\* the same request arrives again after the previous one was answered with a
\* report: the handler starts from its initial state, the process keeps
\* analysisCache; the report of the first request is remembered
Rescan ==
  /\ pc = "scan_done"
  /\ env = "replay"
  /\ fnArgs.run < fnArgs.runs
  /\ response.code = 200
  /\ fnResult' = IF fnArgs.run = 1
                  THEN [links |-> allLinks, ranked |-> Ranked(response.results)]
                  ELSE fnResult
  /\ fnArgs' = [fnArgs EXCEPT !.run = @ + 1]
  /\ pc' = "scan_start"
  /\ domain' = << >>
  /\ maxPages' = 0
  /\ visited' = << >>
  /\ toVisit' = << >>
  /\ allLinks' = << >>
  /\ currentUrl' = << >>
  /\ crawlBrowser' = "none"
  /\ crawlTabs' = {}
  /\ crawlOutcome' = "none"
  /\ navigated' = << >>
  /\ pushed' = {}
  /\ failedPages' = {}
  /\ affiliateBrowser' = "none"
  /\ screenshotBrowser' = "none"
  /\ affTabs' = {}
  /\ shotTabs' = {}
  /\ uniqueLinks' = << >>
  /\ idx' = 0
  /\ statusInfo' = NoOutcome
  /\ aiAnalysis' = NullAI
  /\ results' = << >>
  /\ response' = NoResponse
  /\ failure' = "none"
  /\ checks' = << >>
  /\ aiCalls' = << >>
  /\ captures' = << >>
  /\ faults' = << >>
  /\ captureFailures' = << >>
  /\ UNCHANGED <<env, reqDomain, analysisCache>>

ReplayNext == Next \/ Rescan

ReplaySpec == ReplayInit /\ [][ReplayNext]_vars

\* the URLs checkLinkStatus is called with on its own: every scheme it tells
\* apart, each with a plain, an affiliate, a tracking and an affiliate and
\* tracking remainder
ClassifyUrls ==
  { <<head>> \o rest :
      head \in {"https://", "http://", "mailto:", "tel:", "javascript:", "#", "data:", "blob:"},
      rest \in { <<"site.com", "/">>, <<"partner.net", "/Out", "/deal">>,
                 <<"cdn.io", "/Pixel", ".gif">>, <<"ads.net", "/track", "/beacon">> } }

\* checkLinkStatus(url, browser) is about to be called, with or without a
\* browser handle
ClassifyInit ==
  /\ pc = "classify_call"
  /\ env = "classify"
  /\ reqDomain = << >>
  /\ IdleInit
  /\ \E url \in ClassifyUrls : \E browser \in BOOLEAN :
       fnArgs = [url |-> url, browser |-> browser]
  /\ fnResult = Str("none")

\* the call reaches the return of a synthetic outcome or its first await
CallCheckLinkStatus ==
  /\ pc = "classify_call"
  /\ fnResult' = Str(CheckBranch(fnArgs.url, fnArgs.browser))
  /\ pc' = "classify_returned"
  /\ UNCHANGED <<crawlVars, scanVars, fnArgs>>

ClassifySpec == ClassifyInit /\ [][CallCheckLinkStatus]_vars

\* three requests to one process: a scan, a scan during which the targets and
\* the enrichment service answer otherwise, and the first scan again
CrossInit ==
  /\ pc = "scan_start"
  /\ env = "replay"
  /\ reqDomain = U_ROOT
  /\ IdleInit
  /\ \E page \in CrossPages :
       \E answers, other \in [{page[i].url : i \in 1..Len(page)} -> ReplayAnswers] :
         fnArgs = [page |-> page, answers |-> answers, other |-> other,
                   run |-> 1, runs |-> 3]
  /\ fnResult = Str("none")

CrossSpec == CrossInit /\ [][ReplayNext]_vars

\* the statuses and contexts calculateImpactScore is called with on its own
ScoreStatuses ==
  { Num(n) : n \in {200, 301, 304, 399, 401, 403, 404, 500, 503, 599} }
    \cup { Str(t) : t \in {"DNS_ERROR", "TIMEOUT", "CONNECTION_REFUSED", "ERROR", "Invalid"} }
ScoreContexts == {CX_NONE, CX_NAV, CX_FOOTER, CX_HERO, CX_CTA, CX_ALL, CX_HERO_CTA, CX_BUTTON}

\* calculateImpactScore(linkData, appearanceCount) is about to be called
ScoreInit ==
  /\ pc = "score_call"
  /\ env = "score"
  /\ reqDomain = << >>
  /\ IdleInit
  /\ fnArgs \in [status : ScoreStatuses, context : ScoreContexts,
                  appearanceCount : 0..MaxAppearances]
  /\ fnResult = Str("none")

\* the call returns
CallCalculateImpactScore ==
  /\ pc = "score_call"
  /\ fnResult' = Num(calculateImpactScore(fnArgs.status, fnArgs.context, fnArgs.appearanceCount))
  /\ pc' = "score_returned"
  /\ UNCHANGED <<crawlVars, scanVars, fnArgs>>

ScoreSpec == ScoreInit /\ [][CallCalculateImpactScore]_vars

\* the handler is about to compute the health score of totalLinks references
\* and issueLinks Issues
HealthInit ==
  /\ pc = "health_call"
  /\ env = "health"
  /\ reqDomain = << >>
  /\ IdleInit
  /\ \E t \in 0..MaxHealthLinks : \E i \in 0..t :
       fnArgs = [totalLinks |-> t, issueLinks |-> i]
  /\ fnResult = Str("none")

\* the expression is evaluated
CallHealthScore ==
  /\ pc = "health_call"
  /\ fnResult' = healthScore(fnArgs.totalLinks, fnArgs.issueLinks)
  /\ pc' = "health_returned"
  /\ UNCHANGED <<crawlVars, scanVars, fnArgs>>

HealthSpec == HealthInit /\ [][CallHealthScore]_vars

\* the statuses the fallback mappings are called with on their own
FallbackStatuses ==
  { Num(n) : n \in 100..MaxStatus }
    \cup { Str(t) : t \in {"DNS_ERROR", "TIMEOUT", "CONNECTION_REFUSED", "ERROR", "Invalid"} }

\* determinePriorityFromStatus(status) and getIssueType(status) are about to be called
FallbackInit ==
  /\ pc = "fallback_call"
  /\ env = "fallback"
  /\ reqDomain = << >>
  /\ IdleInit
  /\ \E status \in FallbackStatuses : fnArgs = [status |-> status]
  /\ fnResult = Str("none")

\* the calls return
CallFallback ==
  /\ pc = "fallback_call"
  /\ fnResult' = [priority |-> determinePriorityFromStatus(fnArgs.status),
                   type |-> getIssueType(fnArgs.status)]
  /\ pc' = "fallback_returned"
  /\ UNCHANGED <<crawlVars, scanVars, fnArgs>>

FallbackSpec == FallbackInit /\ [][CallFallback]_vars

\* ------------------------------------------------------------------ claims

NoDuplicates(s) == \A i, j \in 1..Len(s) : i # j => s[i] # s[j]
IsPrefix(s, t) == Len(s) <= Len(t) /\ \A i \in 1..Len(s) : s[i] = t[i]
HasLink(url, type) == \E i \in 1..Len(allLinks) : allLinks[i].url = url /\ allLinks[i].type = type

\* C1: within one crawl no URL is navigated to twice, and the visited set
\* holds each URL once, whatever pages link back to visited URLs.
C1_NeverRevisits ==
  /\ NoDuplicates(navigated)
  /\ NoDuplicates(visited)
  /\ Range(navigated) \subseteq Range(visited)

\* a finished crawl of three pages in which a later page linked back to an
\* earlier one
C1_Witness ==
  /\ pc = "crawl_returned"
  /\ Len(navigated) = 3
  /\ \E i \in 1..Len(allLinks) :
       allLinks[i].url = visited[2] /\ allLinks[i].pageUrl = visited[3]

\* C2: the number of visited pages never exceeds maxPages, and neither does
\* the page list crawlWebsite returns.
C2_AtMostMaxPages ==
  /\ Len(visited) <= maxPages
  /\ Cardinality(Range(visited)) <= maxPages
  /\ Len(navigated) <= maxPages

\* the crawl stopped at maxPages with the frontier still holding a URL
C2_Witness ==
  /\ pc = "crawl_returned"
  /\ maxPages >= 1
  /\ Len(visited) = maxPages
  /\ toVisit # << >>

\* C3: every URL pushed onto the frontier after the seed is the target of a
\* hyperlink of the page being processed, is not affiliate-class and has the
\* root's hostname; the frontier holds nothing else.
C3_OnlyInternalLinksEnqueued ==
  /\ \A p \in pushed :
       /\ ~isAffiliateLink(p.url)
       /\ isValidUrl(p.url)
       /\ hostname(p.url) = hostname(domain)
       /\ \E i \in 1..Len(allLinks) :
            /\ allLinks[i].url = p.url
            /\ allLinks[i].pageUrl = p.page
            /\ allLinks[i].type = "link"
  /\ Range(toVisit) \subseteq {domain} \cup { p.url : p \in pushed }
  /\ Range(visited) \subseteq {domain} \cup { p.url : p \in pushed }

\* pages served an image on the root's host, an affiliate link and a
\* cross-domain link, and some internal link was enqueued
C3_Witness ==
  /\ pc = "crawl_returned"
  /\ pushed # {}
  /\ HasLink(U_CONTACT, "image")
  /\ HasLink(U_AFF_IN, "link")
  /\ HasLink(U_EXT, "link")
  /\ U_CONTACT \notin Range(visited)

NoBrowserOpen ==
  /\ crawlBrowser # "open"
  /\ affiliateBrowser # "open"
  /\ screenshotBrowser # "open"

C5_TabsClosedIndividually ==
  /\ pc = "crawl_loop" => crawlTabs = {} /\ crawlBrowser = "open"
  /\ pc = "verify_loop" =>
       /\ affTabs = {} /\ shotTabs = {}
       /\ affiliateBrowser = "open" /\ screenshotBrowser = "open"

\* C6: once the failure of a browser launch has been answered to the caller,
\* no browser launched before it is still open.
C6_FailureSurfacedAfterClose ==
  (response.code = 500 /\ failure \in {"crawl", "launch_affiliate", "launch_screenshot"})
    => NoBrowserOpen

\* C7: a page failure leaves the crawl at the loop head with the frontier,
\* the collected references and the browser untouched; references are only
\* ever appended; and a crawl that had a page failure does not throw.
C7_PageFailureContained ==
  /\ [](failedPages # {} => crawlOutcome # "threw")
  /\ [][IsPrefix(allLinks, allLinks')]_vars
  /\ [][failedPages' # failedPages =>
          /\ pc' = "crawl_loop"
          /\ toVisit' = toVisit
          /\ allLinks' = allLinks
          /\ crawlBrowser' = "open"]_vars

\* the crawl returned after the second of three pages failed, with
\* references of the first and the third page
C7_Witness ==
  /\ pc = "crawl_returned"
  /\ crawlOutcome = "returned"
  /\ Len(visited) = 3
  /\ failedPages = {visited[2]}
  /\ \E i \in 1..Len(allLinks) : allLinks[i].pageUrl = visited[1]
  /\ \E i \in 1..Len(allLinks) : allLinks[i].pageUrl = visited[3]

IssuesOf(list, url) == { i \in 1..Len(list) : list[i].linkUrl = url }

\* results is what the response carries, reordered
ReportCarriesResults ==
  response.code = 200 =>
    /\ Len(response.results) = Len(results)
    /\ \A i \in 1..Len(results) : \E j \in 1..Len(response.results) : response.results[j] = results[i]
    /\ \A j \in 1..Len(response.results) : \E i \in 1..Len(results) : results[i] = response.results[j]

\* takeErrorScreenshot is running for CurrentLink, whose outcome is statusInfo
Capturing ==
  pc \in {"shot_newpage", "shot_setup", "shot_goto", "shot_highlight", "shot_capture"}

\* the link whose iteration has just ended, with statusInfo its outcome
JustProcessed == pc = "verify_loop" /\ idx >= 1
LastLink == uniqueLinks[idx]

\* C8: a browser-verified affiliate outcome of 403 carries treatAsWorking, no
\* issue of an affiliate-class URL has status 403, in results or in the
\* report, and no capture runs for such an outcome.
C8_Affiliate403Dropped ==
  /\ (statusInfo.isAffiliate /\ statusInfo.checkedWithBrowser /\ IsNum(statusInfo.status, 403))
       => statusInfo.treatAsWorking
  /\ \A i \in 1..Len(results) :
       isAffiliateLink(results[i].linkUrl) => ~IsNum(results[i].status, 403)
  /\ \A i \in 1..Len(response.results) :
       isAffiliateLink(response.results[i].linkUrl) => ~IsNum(response.results[i].status, 403)
  /\ (JustProcessed /\ statusInfo.isAffiliate /\ IsNum(statusInfo.status, 403))
       => /\ IssuesOf(results, LastLink.url) = {}
          /\ LastLink.url \notin Range(captures)
  /\ Capturing => ~(statusInfo.isAffiliate /\ IsNum(statusInfo.status, 403))

\* an affiliate link got 403 from the browser and enrichment called it broken
C8_Witness ==
  /\ JustProcessed
  /\ isAffiliateLink(LastLink.url)
  /\ statusInfo.checkedWithBrowser
  /\ IsNum(statusInfo.status, 403)
  /\ ~aiAnalysis.isNull
  /\ aiAnalysis.issueType # "No Issue"

\* C9 as claimed: an affiliate-class URL verified as 404 is in the issue list
\* with priority Critical.
C9_Affiliate404Critical ==
  /\ (JustProcessed /\ isAffiliateLink(LastLink.url) /\ IsNum(statusInfo.status, 404))
       => /\ Len(results) >= 1
          /\ results[Len(results)].linkUrl = LastLink.url
          /\ results[Len(results)].priority = "Critical"
  /\ ReportCarriesResults

\* C9 amended: an affiliate-class URL verified as 404 is in the issue list;
\* its priority is the one enrichment answered, and Critical when enrichment
\* answered nothing.
C9_Affiliate404Reported ==
  /\ (JustProcessed /\ isAffiliateLink(LastLink.url) /\ IsNum(statusInfo.status, 404))
       => /\ Len(results) >= 1
          /\ results[Len(results)].linkUrl = LastLink.url
          /\ IsNum(results[Len(results)].status, 404)
          /\ results[Len(results)].priority =
               IF aiAnalysis.isNull THEN "Critical" ELSE aiAnalysis.priority
  /\ ReportCarriesResults

\* the report lists an affiliate 404 as Critical
C9_Witness ==
  /\ response.code = 200
  /\ \E j \in 1..Len(response.results) :
       /\ isAffiliateLink(response.results[j].linkUrl)
       /\ IsNum(response.results[j].status, 404)
       /\ response.results[j].priority = "Critical"

\* C10: no issue has status 304, in results or in the report.
C10_No304Issue ==
  /\ \A i \in 1..Len(results) : ~IsNum(results[i].status, 304)
  /\ \A i \in 1..Len(response.results) : ~IsNum(response.results[i].status, 304)

\* a 304 outcome that enrichment called broken has been processed
C10_Witness ==
  /\ JustProcessed
  /\ IsNum(statusInfo.status, 304)
  /\ ~aiAnalysis.isNull
  /\ aiAnalysis.issueType # "No Issue"

\* the statuses for which a capture may be attempted: 404, any 5xx, ERROR,
\* DNS_ERROR, TIMEOUT
CaptureWorthy(status) ==
  \/ IsNum(status, 404)
  \/ (status.isNum /\ status.num >= 500 /\ status.num <= 599)
  \/ IsStr(status, "ERROR")
  \/ IsStr(status, "DNS_ERROR")
  \/ IsStr(status, "TIMEOUT")

\* C11: whenever takeErrorScreenshot runs, the outcome it runs for has status
\* 404, 5xx, ERROR, DNS_ERROR or TIMEOUT and is not treated as working; a link
\* whose outcome is treated as working (an affiliate 403) has had no capture.
C11_CaptureOnlyForFailures ==
  /\ Capturing =>
       /\ CaptureWorthy(statusInfo.status)
       /\ ~statusInfo.treatAsWorking
       /\ captures # << >>
       /\ captures[Len(captures)] = CurrentLink.url
  /\ (JustProcessed /\ statusInfo.treatAsWorking) => LastLink.url \notin Range(captures)
  /\ (JustProcessed /\ ~CaptureWorthy(statusInfo.status)) => LastLink.url \notin Range(captures)

\* a capture ran for one link and the next, an affiliate 403, got none
C11_Witness ==
  /\ JustProcessed
  /\ statusInfo.treatAsWorking
  /\ IsNum(statusInfo.status, 403)
  /\ captures # << >>
  /\ LastLink.url \notin Range(captures)

\* a URL that matches a tracking-pixel pattern or starts with data: or blob:
SkipClass(url) ==
  \/ isTrackingPixel(url)
  \/ startsWith(url, <<"data:">>)
  \/ startsWith(url, <<"blob:">>)

\* C12: a tracking-pixel, data: or blob: URL is never the target of an HTTP
\* request or of a verification tab, and its outcome is status 200 with skip
\* set; the pixel, beacon, data: and blob: references of the site are such URLs.
C12_SkippedWithoutIO ==
  /\ \A u \in {U_PIXEL, U_BEACON_AFF, U_DATA, U_BLOB} : SkipClass(u)
  /\ \A i \in 1..Len(checks) :
       SkipClass(checks[i].url) => checks[i].via \in {"tracking", "inline"}
  /\ pc \in {"http_get", "aff_newpage", "aff_goto"} => ~SkipClass(CurrentLink.url)
  /\ \A u \in affTabs : ~SkipClass(u)
  /\ \A i \in 1..Len(faults) : ~SkipClass(faults[i].url)
  /\ (JustProcessed /\ SkipClass(LastLink.url)) =>
       /\ IsNum(statusInfo.status, 200)
       /\ statusInfo.skip
       /\ ~statusInfo.checkedWithBrowser

\* an affiliate-class beacon URL has been skipped while the affiliate browser is open
C12_Witness ==
  /\ JustProcessed
  /\ LastLink.url = U_BEACON_AFF
  /\ isAffiliateLink(LastLink.url)
  /\ affiliateBrowser = "open"
  /\ statusInfo.skip
  /\ \E i \in 1..Len(checks) : checks[i].url = U_DATA \/ checks[i].url = U_PIXEL

\* the outcome of a mailto: link is 200 exactly when its address matches the
\* email pattern, and is not a success status when it does not
MailtoStatusRight(link, si) ==
  startsWith(link.url, <<"mailto:">>) =>
    /\ IsNum(si.status, 200) <=> emailPattern(link.url)
    /\ ~emailPattern(link.url) => ~isSuccessStatus(si.status)

\* C13: for every mailto: target the outcome checkLinkStatus returned has
\* status 200 if and only if the address matches the email pattern, and a
\* failing status otherwise; mailto:a@b.co matches, mailto:not-an-email does not.
C13_MailtoStatus ==
  /\ emailPattern(U_MAILTO)
  /\ ~emailPattern(U_MAIL_BAD)
  /\ pc = "analyze" => MailtoStatusRight(CurrentLink, statusInfo)
  /\ JustProcessed => MailtoStatusRight(LastLink, statusInfo)

\* C14: within one scan no URL is handed to checkLinkStatus twice, whether it
\* is referenced once or many times, on one page or several, and no URL whose
\* verification failed is verified again.
C14_VerifiedOncePerUrl ==
  /\ \A i, j \in 1..Len(checks) : checks[i].url = checks[j].url => i = j
  /\ \A i, j \in 1..Len(faults) : faults[i].url = faults[j].url => i = j
  /\ \A i \in 1..Len(faults) :
       Cardinality({ k \in 1..Len(checks) : checks[k].url = faults[i].url }) = 1
  /\ Len(checks) <= Cardinality({ allLinks[i].url : i \in 1..Len(allLinks) })

\* a finished scan of two pages that refer three times to one URL, whose one
\* verification failed
C14_Witness ==
  /\ response.code = 200
  /\ Len(visited) >= 2
  /\ CountUrl(allLinks, U_EXT) >= 3
  /\ \E i \in 1..Len(allLinks) : allLinks[i].url = U_EXT /\ allLinks[i].pageUrl # U_ROOT
  /\ \E i \in 1..Len(faults) : faults[i].url = U_EXT
  /\ Cardinality({ k \in 1..Len(checks) : checks[k].url = U_EXT }) = 1

\* the sentinel strings a transport failure is returned as
FailureSentinels == {"DNS_ERROR", "TIMEOUT", "CONNECTION_REFUSED", "ERROR"}
IsFailureSentinel(status) == ~status.isNum /\ status.str \in FailureSentinels

\* C15: a transport failure of a verification (DNS, timeout, refused, other)
\* is an outcome value, never an exception: while its link is being processed
\* the handler is analysing or capturing with a sentinel status, once the link
\* is done an Issue with that sentinel status is in the list, and a scan that
\* answers has verified every unique URL and reports every such Issue.
C15_FailuresAreReportedOutcomes ==
  /\ \A i \in 1..Len(faults) :
       \E k \in 1..Len(uniqueLinks) :
         /\ uniqueLinks[k].url = faults[i].url
         /\ IF k <= idx
            THEN \E n \in IssuesOf(results, faults[i].url) : IsFailureSentinel(results[n].status)
            ELSE /\ k = idx + 1
                 /\ pc = "analyze" \/ Capturing
                 /\ IsFailureSentinel(statusInfo.status)
  /\ response.code = 200 =>
       /\ Len(checks) = Len(uniqueLinks)
       /\ \A i \in 1..Len(faults) :
            \E n \in IssuesOf(response.results, faults[i].url) :
              IsFailureSentinel(response.results[n].status)

\* a scan has answered after the verification of its first URL failed over
\* HTTP and that of its second failed in the browser
C15_Witness ==
  /\ response.code = 200
  /\ Len(uniqueLinks) >= 2
  /\ \E i, j \in 1..Len(faults) :
       /\ faults[i].url = uniqueLinks[1].url
       /\ faults[i].via = "http"
       /\ faults[i].kind = "dns"
       /\ faults[j].url = uniqueLinks[2].url
       /\ faults[j].via = "browser"
  /\ Len(response.results) = 2

\* the status the failure taxonomy gives a transport failure of that kind
TaxonomyStatus(kind) ==
  IF kind = "dns" THEN "DNS_ERROR"
  ELSE IF kind \in {"timeout", "aborted"} THEN "TIMEOUT"
  ELSE IF kind = "refused" THEN "CONNECTION_REFUSED"
  ELSE "ERROR"

\* C16: when a verification attempt, over HTTP or in the browser, has failed,
\* its outcome has status DNS_ERROR for a DNS failure, TIMEOUT for a timeout or
\* an aborted request, CONNECTION_REFUSED for a refused connection, and ERROR
\* with the failure's message as status text for any other failure.
C16_FailureTaxonomy ==
  (pc = "analyze" /\ faults # << >> /\ faults[Len(faults)].url = CurrentLink.url) =>
    LET fault == faults[Len(faults)]
    IN  /\ IsStr(statusInfo.status, TaxonomyStatus(fault.kind))
        /\ fault.kind = "other" => statusInfo.statusText = fault.message

\* C17: the status of every outcome checkLinkStatus returns is an integer in
\* the HTTP status range 100..599 or one of DNS_ERROR, TIMEOUT,
\* CONNECTION_REFUSED, ERROR.
C17_StatusDomain ==
  (pc = "analyze" \/ Capturing \/ JustProcessed) =>
    \/ statusInfo.status.isNum /\ statusInfo.status.num >= 100 /\ statusInfo.status.num <= 599
    \/ IsFailureSentinel(statusInfo.status)

\* the capture that failed is over: the handler is at the head of the loop
\* again (or past it) and the last Issue recorded is that of the link
CaptureOverAndRecorded ==
  /\ idx >= 1
  /\ pc = "verify_loop" \/ failure = "loop"
  /\ \A i \in 1..Len(captureFailures) : captureFailures[i].url = LastLink.url
  /\ results # << >>
  /\ results[Len(results)].linkUrl = LastLink.url

C19_CapturePageClosed ==
  /\ pc \notin {"shot_setup", "shot_goto", "shot_highlight", "shot_capture"} => shotTabs = {}
  /\ Capturing => shotTabs \subseteq {CurrentLink.pageUrl}

\* a capture has returned null after page.screenshot rejected, and the
\* screenshot browser, still open, has no tab
C19_Witness ==
  /\ JustProcessed
  /\ screenshotBrowser = "open"
  /\ \E i \in 1..Len(captureFailures) : captureFailures[i].step = "screenshot"
  /\ results[Len(results)].screenshot = "null"
  /\ shotTabs = {}

\* C20: whatever the status, the context string and the appearance count,
\* calculateImpactScore returns an integer from 0 to 100.
C20_ImpactScoreInRange ==
  pc = "score_returned" =>
    /\ fnResult.isNum
    /\ fnResult.num \in 0..100

\* a 503 in a context with every bonus, referenced MaxAppearances times: the
\* sum of the terms is far above 100 and the score is 100
C20_Witness ==
  /\ pc = "score_returned"
  /\ fnArgs.status = Num(503)
  /\ fnArgs.context = CX_ALL
  /\ fnArgs.appearanceCount = MaxAppearances
  /\ fnResult = Num(100)

\* the words of a context, lower-cased
ContextWords(context) == { LowerTok(context[i]) : i \in 1..Len(context) }

\* the status bonus of the score: 30 for 404, 35 for 5xx, 20 for 403, 10 for
\* 3xx, 0 for anything else
StatusBonus(status) ==
  IF ~status.isNum THEN 0
  ELSE IF status.num = 404 THEN 30
  ELSE IF status.num \in 500..599 THEN 35
  ELSE IF status.num = 403 THEN 20
  ELSE IF status.num \in 300..399 THEN 10
  ELSE 0

\* the context bonus of the score: 20 for cta or button, 15 for hero or
\* header, 10 for navigation
ContextBonus(context) ==
  (IF ContextWords(context) \cap {"cta", "button"} # {} THEN 20 ELSE 0)
  + (IF ContextWords(context) \cap {"hero", "header"} # {} THEN 15 ELSE 0)
  + (IF "navigation" \in ContextWords(context) THEN 10 ELSE 0)

\* C21: calculateImpactScore returns 50 + status bonus + context bonus +
\* min(5 x appearance count, 20), clamped to 0..100; a 404 on one page with
\* context "Hero CTA button" scores 100.
C21_ImpactScoreFormula ==
  pc = "score_returned" =>
    LET sum == 50 + StatusBonus(fnArgs.status) + ContextBonus(fnArgs.context)
                 + (IF 5 * fnArgs.appearanceCount < 20 THEN 5 * fnArgs.appearanceCount ELSE 20)
        clamped == IF sum < 0 THEN 0 ELSE IF sum > 100 THEN 100 ELSE sum
    IN  /\ fnResult = Num(clamped)
        /\ (fnArgs.status = Num(404) /\ fnArgs.context = CX_HERO_CTA /\ fnArgs.appearanceCount = 1)
             => fnResult = Num(100)

\* a 503 in a footer referenced twice has scored 95: no term is clamped
C21_Witness ==
  /\ pc = "score_returned"
  /\ fnArgs.status = Num(503)
  /\ fnArgs.context = CX_FOOTER
  /\ fnArgs.appearanceCount = 2
  /\ fnResult = Num(95)

\* score is 100 * (total - issues) / total rounded to the nearest integer, a
\* half rounded up
IsRoundedPercent(score, total, issues) ==
  /\ score.isNum
  /\ 2 * total * score.num - total <= 200 * (total - issues)
  /\ 200 * (total - issues) < 2 * total * score.num + total

\* C22: the health score is round(100 * (totalLinks - issueCount) / totalLinks)
\* for totalLinks > 0 references and issueCount Issues, and is 100 when there is
\* no Issue.
C22_HealthScoreFormula ==
  (pc = "health_returned" /\ fnArgs.totalLinks > 0) =>
    /\ IsRoundedPercent(fnResult, fnArgs.totalLinks, fnArgs.issueLinks)
    /\ fnArgs.issueLinks = 0 => fnResult = Num(100)

\* C23: when the crawl yields no reference, nothing after the two browser
\* launches raises an exception: the handler answers 200 with a report, and the
\* health score of that report is not a number (NaN, written as null).
C23_EmptyCrawlReported ==
  /\ allLinks = << >> => failure \in {"none", "crawl", "launch_affiliate", "launch_screenshot"}
  /\ (response.code # 0 /\ allLinks = << >> /\ failure = "none" /\ crawlOutcome = "returned") =>
       /\ response.code = 200
       /\ response.totalLinks = 0
       /\ response.results = << >>
       /\ ~response.healthScore.isNum
       /\ response.healthScore = Str("null")

\* the root page was crawled, had no reference, and the report is out
C23_Witness ==
  /\ response.code = 200
  /\ visited = <<U_ROOT>>
  /\ failedPages = {}
  /\ allLinks = << >>
  /\ response.healthScore = Str("null")

\* C24: the Issues of a report are ordered Critical, High, Medium, Low, and
\* Issues of one priority are in the order of their discovery (their ids).
C24_RankedByPriority ==
  response.code = 200 =>
    \A i, j \in 1..Len(response.results) :
      LET a == response.results[i]
          b == response.results[j]
      IN  (i < j /\ KnownPriority(a.priority) /\ KnownPriority(b.priority)) =>
            /\ priorityOrder(a.priority) <= priorityOrder(b.priority)
            /\ a.priority = b.priority => a.id < b.id

\* C25: the priority of every Issue, pushed or reported, is Critical, High,
\* Medium or Low.
C25_PriorityIsOneOfFour ==
  /\ \A i \in 1..Len(results) : KnownPriority(results[i].priority)
  /\ \A j \in 1..Len(response.results) : KnownPriority(response.results[j].priority)

\* the priority table of the fallback as the specification gives it
FallbackPriorityTable(status) ==
  IF IsNum(status, 404) THEN "Critical"
  ELSE IF GE(status, 500) /\ LT(status, 600) THEN "Critical"
  ELSE IF IsNum(status, 403) \/ IsNum(status, 401) THEN "High"
  ELSE IF IsStr(status, "TIMEOUT") THEN "High"
  ELSE IF GE(status, 300) /\ LT(status, 400) THEN "Medium"
  ELSE "Low"

\* C26: the fallback priority is Critical for 404 and for any 5xx, High for
\* 403, 401 and TIMEOUT, Medium for any 3xx, and Low for every other status.
C26_FallbackPriority ==
  pc = "fallback_returned" =>
    fnResult.priority = FallbackPriorityTable(fnArgs.status)

\* the crawled pages on which url appears
PagesWith(links, url) ==
  { links[i].pageUrl : i \in { k \in 1..Len(links) : links[k].url = url } }

\* C27: the appearance count of an Issue is the number of distinct crawled
\* pages on which its target URL appears.
C27_AppearancesArePages ==
  \A i \in 1..Len(results) :
    results[i].appearancesCount = Cardinality(PagesWith(allLinks, results[i].linkUrl))

\* url is an absolute URL: it starts with a scheme
HasScheme(url) == Len(url) >= 1 /\ url[1] \in SchemeTokens \cup OpaqueSchemeTokens

\* C28: a request whose root URL is missing or does not parse as an absolute
\* URL is answered with status 400, and for such a request no browser is ever
\* launched, no page crawled, no link verified, analysed or captured.
C28_InvalidRootRejected ==
  (reqDomain = << >> \/ ~HasScheme(reqDomain)) =>
    /\ pc \in {"scan_start", "scan_done"}
    /\ pc = "scan_done" => response.code = 400
    /\ crawlBrowser = "none" /\ affiliateBrowser = "none" /\ screenshotBrowser = "none"
    /\ crawlTabs = {} /\ affTabs = {} /\ shotTabs = {}
    /\ visited = << >> /\ navigated = << >> /\ allLinks = << >>
    /\ checks = << >> /\ aiCalls = << >> /\ captures = << >>

\* a request for a relative URL has been answered 400
C28_Witness ==
  /\ reqDomain = U_REL
  /\ pc = "scan_done"
  /\ response.code = 400
  /\ crawlBrowser = "none"

C30_SameRankingTwice ==
  (env = "replay" /\ fnArgs.run = 2 /\ response.code = 200 /\ allLinks = fnResult.links) =>
    Ranked(response.results) = fnResult.ranked

\* the second report is out, ranks two Issues or more, and one of them was
\* enriched from the cache the first request filled
C30_Witness ==
  /\ env = "replay"
  /\ fnArgs.run = 2
  /\ response.code = 200
  /\ allLinks = fnResult.links
  /\ Len(response.results) >= 2
  /\ aiCalls # << >>
  /\ \E j \in 1..Len(response.results) :
       /\ IsNum(response.results[j].status, 403)
       /\ response.results[j].priority = "Critical"

\* C31: a scan reports the same Issues, priorities and issue types whether or
\* not the process has served another scan before it: the third of three
\* requests, answered as the first was, ranks what the first ranked.
C31_ScansIndependent ==
  (fnArgs.runs = 3 /\ fnArgs.run = 3 /\ response.code = 200 /\ allLinks = fnResult.links) =>
    Ranked(response.results) = fnResult.ranked

\* the rule by which an outcome that is not an affiliate's becomes an Issue
PlainReportRule(status, ai) ==
  /\ ~IsNum(status, 304)
  /\ \/ ~isSuccessStatus(status) /\ ~(GE(status, 300) /\ LT(status, 400))
     \/ ~ai.isNull /\ ai.issueType # "No Issue"

\* C32: an outcome has treatAsWorking exactly when its URL is affiliate-class,
\* was checked with the browser and answered 403; an affiliate-class URL with
\* any other status is kept for reporting (pushed, or captured first) exactly
\* when the rule for a non-affiliate URL says so.
C32_TreatAsWorkingOnlyAffiliate403 ==
  [][ pc = "analyze" =>
        /\ statusInfo.treatAsWorking <=>
              /\ isAffiliateLink(CurrentLink.url)
              /\ statusInfo.checkedWithBrowser
              /\ IsNum(statusInfo.status, 403)
        /\ (isAffiliateLink(CurrentLink.url) /\ ~IsNum(statusInfo.status, 403)) =>
              ((Len(results') > Len(results) \/ pc' = "shot_newpage")
                 <=> PlainReportRule(statusInfo.status, aiAnalysis'))
    ]_vars

\* an affiliate-class URL whose check with the browser failed was pushed as an
\* Issue of status ERROR, not treated as working
C32_Witness ==
  /\ JustProcessed
  /\ isAffiliateLink(LastLink.url)
  /\ statusInfo.checkedWithBrowser
  /\ IsStr(statusInfo.status, "ERROR")
  /\ ~statusInfo.treatAsWorking
  /\ Len(results) >= 1
  /\ results[Len(results)].linkUrl = LastLink.url

\* the rule that answers url without network access, if any, in the order
\* tracking, data:/blob:, mailto:, tel:, javascript: or fragment
SyntheticRule(url) ==
  IF isTrackingPixel(url) THEN "tracking"
  ELSE IF url[1] \in {"data:", "blob:"} THEN "inline"
  ELSE IF url[1] = "mailto:" THEN "mailto"
  ELSE IF url[1] = "tel:" THEN "tel"
  ELSE IF url[1] \in {"javascript:", "#"} THEN "internal"
  ELSE "none"

\* C33: checkLinkStatus answers a URL that matches a tracking, data:/blob:,
\* mailto:, tel:, javascript: or fragment rule by the first such rule and
\* without browser or HTTP, even when it is affiliate-class; otherwise it
\* checks an affiliate-class URL with the browser exactly when it was given a
\* browser handle, and every remaining URL by HTTP GET.
C33_RuleOrder ==
  pc = "classify_returned" =>
    fnResult = Str(IF SyntheticRule(fnArgs.url) # "none" THEN SyntheticRule(fnArgs.url)
                   ELSE IF isAffiliateLink(fnArgs.url) /\ fnArgs.browser THEN "browser"
                   ELSE "http")

\* a tel: URL with an affiliate path was answered as a phone link although a
\* browser handle was given
C33_Witness ==
  /\ pc = "classify_returned"
  /\ fnArgs.url = <<"tel:", "partner.net", "/Out", "/deal">>
  /\ isAffiliateLink(fnArgs.url)
  /\ fnArgs.browser
  /\ fnResult = Str("tel")

\* C34: a reference whose enrichment is null is kept as an Issue exactly when
\* its status is not a success (2xx or 304), treatAsWorking is not set and the
\* status is not in 300-399 (kept: pushed at once, or handed to the evidence
\* capture that ends in a push); as long as no enrichment reply has arrived in
\* the scan (the cache is still empty), no Issue has a 3xx status.
C34_IssueRuleWithoutEnrichment ==
  [][ /\ (pc = "analyze" /\ aiAnalysis'.isNull) =>
            ((Len(results') > Len(results) \/ pc' = "shot_newpage")
               <=> /\ ~( \/ (GE(statusInfo.status, 200) /\ LT(statusInfo.status, 300))
                         \/ IsNum(statusInfo.status, 304) )
                   /\ ~statusInfo.treatAsWorking
                   /\ ~(GE(statusInfo.status, 300) /\ LT(statusInfo.status, 400)))
      /\ analysisCache' = {} =>
            \A i \in 1..Len(results') :
              ~(GE(results'[i].status, 300) /\ LT(results'[i].status, 400))
    ]_vars

\* a target answered 301, the enrichment service gave nothing, and the
\* reference was dropped
C34_Witness ==
  /\ JustProcessed
  /\ IsNum(statusInfo.status, 301)
  /\ aiAnalysis.isNull
  /\ LastLink.url \in Range(aiCalls)
  /\ \A i \in 1..Len(results) : results[i].linkUrl # LastLink.url

\* C35: every Issue in results whose status is 404, a 5xx code, ERROR,
\* DNS_ERROR or TIMEOUT (none of which carries treatAsWorking) had an
\* evidence capture attempted for its target.
C35_ErrorIssuesGetCapture ==
  \A i \in 1..Len(results) :
    ( \/ IsNum(results[i].status, 404)
      \/ (GE(results[i].status, 500) /\ LT(results[i].status, 600))
      \/ IsStr(results[i].status, "ERROR")
      \/ IsStr(results[i].status, "DNS_ERROR")
      \/ IsStr(results[i].status, "TIMEOUT") )
    => results[i].linkUrl \in Range(captures)

\* the positions of the handler inside the loop over the unique URLs
VerifyPhase ==
  {"verify_loop", "aff_newpage", "aff_goto", "http_get", "analyze", "shot_newpage",
   "shot_setup", "shot_goto", "shot_highlight", "shot_capture"}

\* C36: in the verify phase at most one verification or screenshot tab is
\* open, none is open when the loop turns to the next unique URL, and the
\* number of URLs whose processing has started is the number finished plus the
\* one in progress.
C36_OneTargetAtATime ==
  pc \in VerifyPhase =>
    /\ Cardinality(affTabs) + Cardinality(shotTabs) <= 1
    /\ pc = "verify_loop" => (affTabs = {} /\ shotTabs = {})
    /\ Len(checks) = idx + (IF pc = "verify_loop" THEN 0 ELSE 1)

\* the second target is open in a verification tab after the first target's
\* capture has finished and its tab is closed
C36_Witness ==
  /\ pc = "aff_goto"
  /\ idx = 1
  /\ affTabs = {CurrentLink.url}
  /\ shotTabs = {}
  /\ uniqueLinks[1].url \in Range(captures)
  /\ Len(results) = 1

\* a context that names neither a call to action nor a button, in any case
PlainContext(context) ==
  \A k \in 1..Len(context) :
    context[k] \notin {"cta", "CTA", "Cta", "button", "Button", "BUTTON"}

\* C37: a reference that answered exactly 200 with zero redirects in a context
\* with neither 'cta' nor 'button' is dropped by the step that decides on it:
\* the enrichment service is not asked, the cache is neither read nor written,
\* no capture starts and no Issue is pushed.
C37_PlainOkNeverReported ==
  [][ ( /\ pc = "analyze"
        /\ IsNum(statusInfo.status, 200)
        /\ statusInfo.redirectCount = 0
        /\ PlainContext(CurrentLink.context) )
      => /\ aiCalls' = aiCalls
         /\ aiAnalysis'.isNull
         /\ analysisCache' = analysisCache
         /\ results' = results
         /\ captures' = captures
         /\ pc' = "verify_loop"
         /\ idx' = idx + 1
    ]_vars

\* the navigation link 'Partner' answered 200 after an enrichment reply for an
\* earlier link was stored; the service was not asked about it and it is in
\* no Issue
C37_Witness ==
  /\ JustProcessed
  /\ IsNum(statusInfo.status, 200)
  /\ statusInfo.redirectCount = 0
  /\ LastLink.context = CX_NAV
  /\ analysisCache # {}
  /\ LastLink.url \notin Range(aiCalls)
  /\ \A i \in 1..Len(results) : results[i].linkUrl # LastLink.url

\* C38: every pass of the crawl loop that enters the body takes one URL off
\* the frontier, the loop is left exactly when the frontier is empty or
\* maxPages pages are visited, and a crawl that reached its loop goes on to
\* close the browser and return.
C38_CrawlTerminates ==
  /\ [][ pc = "crawl_loop" =>
            IF toVisit # << >> /\ Len(visited) < maxPages
            THEN Len(toVisit') = Len(toVisit) - 1 /\ pc' # "crawl_finally"
            ELSE pc' = "crawl_finally" ]_vars
  /\ (pc = "crawl_loop") ~> (pc = "crawl_returned" /\ crawlBrowser = "closed"
                               /\ crawlOutcome = "returned")

\* a crawl returned with its browser closed because maxPages pages were
\* visited, with URLs still on the frontier and one page failed
C38_Witness ==
  /\ pc = "crawl_returned"
  /\ crawlBrowser = "closed"
  /\ maxPages >= 2
  /\ Len(visited) = maxPages
  /\ toVisit # << >>
  /\ failedPages # {}

\* C39: a page is in visited from before its navigation is attempted; a page
\* whose crawl failed has no reference in allLinks and pushed nothing onto the
\* frontier, stays in visited, and visited, failed pages included, never
\* exceeds maxPages.
C39_FailedPageStillVisited ==
  /\ pc \in {"crawl_newpage", "crawl_goto", "crawl_eval"} => currentUrl \in Range(visited)
  /\ Range(navigated) \subseteq Range(visited)
  /\ \A p \in failedPages :
       /\ p \in Range(visited)
       /\ \A i \in 1..Len(allLinks) : allLinks[i].pageUrl # p
       /\ \A e \in pushed : e.page # p
  /\ Len(visited) <= maxPages
  /\ \A i, j \in 1..Len(visited) : visited[i] = visited[j] => i = j

\* the navigation to the second page failed; the crawl returned with that
\* page as the last of maxPages visited pages and a URL left on the frontier
C39_Witness ==
  /\ pc = "crawl_returned"
  /\ maxPages = 2
  /\ Len(visited) = 2
  /\ visited[2] \in failedPages
  /\ visited[2] \in Range(navigated)
  /\ toVisit # << >>
  /\ allLinks # << >>

\* C40: there are never more Issues than unique target URLs taken up by the
\* loop, nor more unique target URLs than references, and a report over at
\* least one reference has a health score that is a number from 0 to 100.
C40_CountsOrderedScoreInRange ==
  /\ Len(results) <= idx
  /\ idx <= Len(uniqueLinks)
  /\ Len(uniqueLinks) <= Len(allLinks)
  /\ response.code = 200 =>
       /\ Len(response.results) <= Len(uniqueLinks)
       /\ response.totalLinks = Len(allLinks)
       /\ response.totalLinks > 0 =>
            /\ response.healthScore.isNum
            /\ response.healthScore.num >= 0
            /\ response.healthScore.num <= 100

\* a report over three references to two targets, both of them Issues, with a
\* health score of 33
C40_Witness ==
  /\ response.code = 200
  /\ response.totalLinks = 3
  /\ Len(uniqueLinks) = 2
  /\ Len(response.results) = 2
  /\ response.healthScore = Num(33)

====
